---- MODULE Spec2Model ----
(***************************************************************************)
(* Model of the client-side layer of the inventory application:            *)
(*   static/js/animation.js  NexusAnimation, the visual event sink         *)
(*   static/js/platform.js   Platform, the polling and rendering engine    *)
(*                                                                         *)
(* Numbers.  Time is in milliseconds and advances by Quantum, the smallest *)
(* delay the code passes to setTimeout; every other delay is a multiple of *)
(* it.  baseSpeed is an IEEE double obtained from one of the literals 0.4, *)
(* 0.8, 1.2 by repeated multiplication by 3: it is kept as [b, k], b the   *)
(* literal in tenths and k the number of multiplications.  The doubles     *)
(* 0.4*3^k, 0.8*3^k, 1.2*3^k are pairwise different for k <= 5 (0.4*3 is   *)
(* 1.2000000000000002, not 1.2), so equality of pairs is equality of the   *)
(* doubles.  pulseIntensity is kept as [m, e], standing for m * 0.95^e.    *)
(* glowIntensity is in tenths, percentages are in tenths of a percent.     *)
(***************************************************************************)
EXTENDS Integers, Sequences, FiniteSets, TLC

\* ---------------------------------------------------------------- bounds
MaxTimers == 3
MaxFrames == 10
MaxBoost == 2
MaxInFlight == 2
MaxLoads == 2
MaxSkipped == 2

\* ------------------------------------------------- constants of the code
PulseMs == 500
HueMs == 2000
AlertMs == 5000
BaseHue == 220
InsightHue == 280
SalePulse == 20
MarketPulse == 10
InsightPulse == 25
HeartbeatMs == 5000
MarketMs == 15000

Quantum == PulseMs

VARIABLES
    hue,        \* NexusAnimation.hue
    config,     \* NexusAnimation.config: baseSpeed, pulseIntensity, glowIntensity, state
    timers,     \* pending setTimeout callbacks of the animation, in creation order
    hist,       \* history, one entry per pending timer: what held when it was created
    last        \* history: the onEvent call made by the latest step, if any

animVars == <<hue, config, timers, hist, last>>

VARIABLES
    path,       \* window.location.pathname
    plat,       \* the Platform object's own fields
    intervals,  \* the setInterval callbacks registered, in registration order
    pending,    \* awaits in flight, in the order they were started
    dom,        \* the document: what each element holds, by element id
    step        \* history: what the latest step did (writes, events raised, results)

platVars == <<path, plat, intervals, pending, dom, step>>

vars == <<hue, config, timers, hist, last, path, plat, intervals, pending, dom, step>>

\* ------------------------------------------------------------- animation

Speed(b, k) == [b |-> b, k |-> k]
Intensity(m, e) == [m |-> m, e |-> e]

\* baseSpeed *= 3
Times3(s) == [s EXCEPT !.k = @ + 1]

\* pulseIntensity > 0
Positive(p) == p.m > 0

\* the constructor's fields
InitHue == BaseHue
InitConfig ==
    [baseSpeed |-> Speed(4, 0), pulseIntensity |-> Intensity(0, 0),
     glowIntensity |-> 0, state |-> "idle"]

\* The animation as one value, for the methods below.
Anim == [hue |-> hue, config |-> config, timers |-> timers]

SpeedTimer(v) == [kind |-> "speed", left |-> PulseMs, val |-> v]
\* variant: the revert timer set to the delay of the hue timer
IdleTimerEarly == [kind |-> "idle", left |-> HueMs]
IdleTimer == [kind |-> "idle", left |-> AlertMs]
HueTimer(h) == [kind |-> "hue", left |-> HueMs, val |-> h]

triggerPulseFixedBaseline(a, intensity) ==
    [a EXCEPT !.config.pulseIntensity = Intensity(intensity, 0),
              !.config.baseSpeed = Times3(a.config.baseSpeed),
              !.timers = Append(@, SpeedTimer(Speed(4, 0)))]

triggerPulse(a, intensity) ==
    LET originalSpeed == a.config.baseSpeed
    IN  [a EXCEPT !.config.pulseIntensity = Intensity(intensity, 0),
                  !.config.baseSpeed = Times3(originalSpeed),
                  !.timers = Append(@, SpeedTimer(originalSpeed))]

\* variant: the default branch leaves the glow as it is
setFlowStateGlowKept(a, state) ==
    CASE state = "processing" ->
            [a EXCEPT !.config.state = state,
                      !.config.baseSpeed = Speed(8, 0),
                      !.config.glowIntensity = 5]
      [] state = "alert" ->
            [a EXCEPT !.config.state = state,
                      !.config.baseSpeed = Speed(12, 0),
                      !.config.glowIntensity = 10]
      [] OTHER ->
            [a EXCEPT !.config.state = state,
                      !.config.baseSpeed = Speed(4, 0)]

setFlowState(a, state) ==
    CASE state = "processing" ->
            [a EXCEPT !.config.state = state,
                      !.config.baseSpeed = Speed(8, 0),
                      !.config.glowIntensity = 5]
      [] state = "alert" ->
            [a EXCEPT !.config.state = state,
                      !.config.baseSpeed = Speed(12, 0),
                      !.config.glowIntensity = 10]
      [] OTHER ->
            [a EXCEPT !.config.state = state,
                      !.config.baseSpeed = Speed(4, 0),
                      !.config.glowIntensity = 0]

\* data.volatility > 2, data.volatility in tenths; a payload without the
\* field compares undefined > 2, which is false
VolatilityHigh(data) ==
    IF "volatility" \in DOMAIN data THEN data.volatility > 20 ELSE FALSE

onEventRefreshPulses(a, eventType, data) ==
    CASE eventType = "low_stock" ->
            [setFlowState(a, "alert") EXCEPT !.timers = Append(@, IdleTimer)]
      [] eventType = "market_update" ->
            setFlowState(triggerPulse(a, MarketPulse),
                         IF VolatilityHigh(data) THEN "processing" ELSE "idle")
      [] eventType = "ai_insight" ->
            [triggerPulse(a, InsightPulse) EXCEPT
                !.hue = InsightHue, !.timers = Append(@, HueTimer(a.hue))]
      [] OTHER -> triggerPulse(a, SalePulse)

onEvent(a, eventType, data) ==
    CASE eventType = "sale" -> triggerPulse(a, SalePulse)
      [] eventType = "market_update" ->
            LET p == triggerPulse(a, MarketPulse)
            IN  IF VolatilityHigh(data) THEN setFlowState(p, "processing")
                ELSE setFlowState(p, "idle")
      [] eventType = "low_stock" ->
            LET s == setFlowState(a, "alert")
            IN  [s EXCEPT !.timers = Append(@, IdleTimer)]
      [] eventType = "ai_insight" ->
            LET p == triggerPulse(a, InsightPulse)
                oldHue == p.hue
            IN  [p EXCEPT !.hue = InsightHue,
                          !.timers = Append(@, HueTimer(oldHue))]
      [] OTHER -> a

\* the callback of a pending timer
fire(a, t) ==
    CASE t.kind = "speed" -> [a EXCEPT !.config.baseSpeed = t.val]
      [] t.kind = "idle" -> setFlowState(a, "idle")
      [] t.kind = "hue" -> [a EXCEPT !.hue = t.val]

\* variant: two decays in one frame
decayTwice(p) == IF Positive(p) THEN [p EXCEPT !.e = @ + 2] ELSE p

\* one frame: if (pulseIntensity > 0) pulseIntensity *= 0.95
decay(p) == IF Positive(p) THEN [p EXCEPT !.e = @ + 1] ELSE p

\* ------------------------------------------------ the sink's environment

NoData == [f \in {} |-> 0]
None == [kind |-> "none"]

\* percentages a quote can carry, in tenths of a percent
Percents == {-30, -20, 0, 21}
Quotes == {[change_percent |-> c, change |-> c] : c \in Percents}

Abs(x) == IF x < 0 THEN -x ELSE x

marketUpdatePayloadSigned(marketData) ==
    [volatility |-> marketData.change_percent,
     isPositive |-> marketData.change >= 0]

\* the payload both market_update call sites build from a quote
marketUpdatePayload(marketData) ==
    [volatility |-> Abs(marketData.change_percent),
     isPositive |-> marketData.change >= 0]

\* payloads of direct onEvent calls
Payloads(kind) ==
    CASE kind = "market_update" ->
            {NoData} \cup {[volatility |-> v] : v \in {0, 15, 20, 21, 50}}
      [] kind = "sale" -> {[amount |-> 1]}
      [] kind = "refresh" -> {[endpoint |-> "/summary"]}
      [] OTHER -> {NoData}

Kinds == {"sale", "market_update", "low_stock", "ai_insight", "refresh"}

\* history entries for the timers a call created: the value the call found
\* (the speed for a pulse's timer, the hue for a hue timer), the timer's age,
\* whether it is the revert timer of the latest low_stock event, and whether
\* the flow state was left alone since that event
Entry(t) ==
    [pre |-> IF t.kind = "speed" THEN config.baseSpeed
             ELSE IF t.kind = "hue" THEN hue ELSE 0,
     age |-> 0, tracked |-> t.kind = "idle", clean |-> TRUE]

Born(new) == [i \in DOMAIN new |-> Entry(new[i])]

\* a call of setFlowState that is not the tracked timer's own
Disturb(h) == [i \in DOMAIN h |-> [h[i] EXCEPT !.clean = FALSE]]
Untrack(h) == [i \in DOMAIN h |-> [h[i] EXCEPT !.tracked = FALSE]]

Marked(h, kind) ==
    CASE kind = "low_stock" -> Untrack(h)
      [] kind = "market_update" -> Disturb(h)
      [] OTHER -> h

\* window.nexusAnimation.onEvent(kind, data), from any caller
Deliver(kind, data, quote) ==
    LET a == onEvent(Anim, kind, data)
        new == SubSeq(a.timers, Len(timers) + 1, Len(a.timers))
    IN  /\ Len(a.timers) <= MaxTimers
        /\ \A i \in DOMAIN a.timers :
              a.timers[i].kind = "speed" => a.timers[i].val.k < MaxBoost
        /\ hue' = a.hue
        /\ config' = a.config
        /\ timers' = a.timers
        /\ hist' = Marked(hist, kind) \o Born(new)
        /\ last' = [kind |-> kind, data |-> data, quote |-> quote]
        /\ UNCHANGED platVars

Event == \E kind \in Kinds : \E data \in Payloads(kind) : Deliver(kind, data, NoData)

\* a quote reaches one of the platform's market_update call sites
QuoteEvent == \E q \in Quotes : Deliver("market_update", marketUpdatePayload(q), q)

Due(i) == timers[i].left = 0 /\ \A j \in 1..(i - 1) : timers[j].left > 0

Without(s, i) == SubSeq(s, 1, i - 1) \o SubSeq(s, i + 1, Len(s))

Expire(i) ==
    /\ LET a == fire([Anim EXCEPT !.timers = Without(timers, i)], timers[i])
       IN  /\ hue' = a.hue
           /\ config' = a.config
           /\ timers' = a.timers
    /\ hist' = LET rest == Without(hist, i)
               IN  IF timers[i].kind = "idle" THEN Disturb(rest) ELSE rest
    /\ last' = [kind |-> "fired", timer |-> timers[i].kind, was |-> hist[i]]
    /\ UNCHANGED platVars

\* the earliest-created expired timer runs its callback
FireTimer == \E i \in DOMAIN timers : Due(i) /\ Expire(i)

Elapse(ts) == [i \in DOMAIN ts |-> [ts[i] EXCEPT !.left = @ - Quantum]]
Older(h) == [i \in DOMAIN h |-> [h[i] EXCEPT !.age = @ + Quantum]]

\* time passes; an expired timer runs before time moves on
Tick ==
    /\ timers # <<>>
    /\ \A i \in DOMAIN timers : timers[i].left > 0
    /\ timers' = Elapse(timers)
    /\ hist' = Older(hist)
    /\ last' = None
    /\ UNCHANGED <<hue, config>>
    /\ UNCHANGED platVars

\* requestAnimationFrame callback
animate ==
    /\ config.pulseIntensity.e < MaxFrames
    /\ config' = [config EXCEPT !.pulseIntensity = decay(@)]
    /\ last' = [kind |-> "frame"]
    /\ UNCHANGED <<hue, timers, hist>>
    /\ UNCHANGED platVars

\* the animation as constructed
AnimStart ==
    /\ hue = InitHue
    /\ config = InitConfig
    /\ timers = <<>>
    /\ hist = <<>>
    /\ last = None

\* no Platform on the page
PlatAbsent ==
    /\ path = "/"
    /\ plat = <<>>
    /\ intervals = <<>>
    /\ pending = <<>>
    /\ dom = <<>>
    /\ step = [op |-> "none"]

AnimInit == AnimStart /\ PlatAbsent

AnimNext == Event \/ QuoteEvent \/ FireTimer \/ Tick

SpecAnim == AnimInit /\ [][AnimNext]_vars

\* Frames against events inside one quantum of the clock: the display runs
\* some thirty frames in 500 ms, and no timer expires in between.  No timer
\* callback reads or writes pulseIntensity (see fire).
FrameNext == Event \/ QuoteEvent \/ animate

SpecFrames == AnimInit /\ [][FrameNext]_vars

\* --------------------------------------------------------------- platform

\* JSON values are records: null, a body that is no JSON, the exception a
\* rejected await raises, the value of a property that is not there, an array
Null == [null |-> TRUE]
Garbage == [garbage |-> TRUE]
Thrown == [thrown |-> TRUE]
Undefined == [undefined |-> TRUE]
List(s) == [list |-> s]

Has(obj, f) == f \in DOMAIN obj
Field(obj, f) == IF Has(obj, f) THEN obj[f] ELSE Undefined
IsNull(v) == Has(v, "null")
IsUndefined(v) == Has(v, "undefined")
\* !v for an object, an array, null or undefined
Not(v) == IsNull(v) \/ IsUndefined(v)
\* v.error is truthy (messages are non-empty strings)
HasError(v) == Has(v, "error")

\* response.ok
Ok(status) == status >= 200 /\ status <= 299

\* the try block of fetchApi: await fetch, the status check, await json()
attempt(o) ==
    IF o.net = "error" THEN Thrown
    ELSE IF ~Ok(o.status) THEN Thrown
    ELSE IF o.body = Garbage THEN Thrown
    ELSE o.body

\* variant: fetchApi without its catch
fetchApiUncaught(o) == attempt(o)

\* what the promise fetchApi returned settles to, given what the network did
fetchApi(o) == IF attempt(o) = Thrown THEN Null ELSE attempt(o)

\* the call fetchApi makes before the request: onEvent('refresh', {endpoint})
Refresh(endpoint) == [kind |-> "refresh", data |-> [endpoint |-> endpoint]]

\* an await in flight: the requests it waits for (one, or the three of a
\* Promise.all) and the code that runs once they have all settled
Await(endpoints, cont) == [cont |-> cont, endpoints |-> endpoints]

Endpoints ==
    {"/summary", "/products", "/sales", "/realtime-updates", "/market/search",
     "/ai/market-insights", "/ai/inventory-advice", "/market", "/market/watchlist",
     "/market/portfolio", "/market/news", "/market/indicators"}

Statuses == {200, 204, 404, 500}

Failure == [net |-> "error"]
Response(status, body) == [net |-> "ok", status |-> status, body |-> body]

\* what the network can do to a request whose good body is one of bodies
Outcomes(bodies) ==
    {Failure} \cup {Response(st, b) : st \in Statuses, b \in bodies \cup {Garbage}}

\* bodies of the fetchApi harness: null, a payload, an application error
SomeBodies == {Null, [value |-> 1], [error |-> "denied"]}

\* fetchApi on its own: any caller, any endpoint
Call ==
    \E e \in Endpoints :
        /\ Len(pending) < MaxInFlight
        /\ pending' = Append(pending, Await(<<e>>, "caller"))
        /\ step' = [op |-> "fetchApi", endpoint |-> e, raised |-> <<Refresh(e)>>]
        /\ UNCHANGED <<path, plat, intervals, dom>>
        /\ UNCHANGED animVars

Settle ==
    \E i \in DOMAIN pending : \E o \in Outcomes(SomeBodies) :
        /\ pending[i].cont = "caller"
        /\ pending' = Without(pending, i)
        /\ step' = [op |-> "settled", endpoint |-> pending[i].endpoints[1],
                    outcome |-> o, result |-> fetchApi(o), raised |-> <<>>]
        /\ UNCHANGED <<path, plat, intervals, dom>>
        /\ UNCHANGED animVars

FetchInit == AnimStart /\ PlatAbsent

FetchNext == Call \/ Settle

SpecFetch == FetchInit /\ [][FetchNext]_vars

\* ------------------------------------------------ strings and documents

Digits2(n) == IF n < 10 THEN "0" \o ToString(n) ELSE ToString(n)
Digits3(n) == IF n < 100 THEN "0" \o Digits2(n) ELSE ToString(n)

\* Number.prototype.toFixed(2), of an amount kept in thousandths; the amounts
\* of the model do not end in 5, where the double decides which way it goes
toFixed(n) ==
    LET c == (n + 5) \div 10
    IN  ToString(c \div 100) \o "." \o Digits2(c % 100)

\* Number.prototype.toLocaleString() of a whole number below a million, in
\* a locale that groups digits by three with a comma
toLocaleString(n) ==
    IF n >= 1000 THEN ToString(n \div 1000) \o "," \o Digits3(n % 1000)
    ELSE ToString(n)

\* a number in a template literal, the number kept in tenths: 15 is 1.5
Tenths(n) ==
    LET a == Abs(n)
        whole == IF a % 10 = 0 THEN ToString(a \div 10)
                 ELSE ToString(a \div 10) \o "." \o ToString(a % 10)
    IN  IF n < 0 THEN "-" \o whole ELSE whole

\* what a template literal or textContent makes of a value: numbers are
\* [num], strings [str]
Num(n) == [num |-> n]
Str(s) == [str |-> s]
String(v) == IF Has(v, "num") THEN ToString(v.num) ELSE v.str

\* el.textContent != val, the loose comparison: a number is compared with
\* the number the text reads as, a string with the text itself
LooseDiffers(text, val) == text # String(val)

\* markup is a sequence of tokens: tags, text, white space
Tag(s) == [k |-> "tag", s |-> s]
Text(s) == [k |-> "text", s |-> s]
Ws == [k |-> "ws", s |-> " "]

\* the names a sale can carry, and how the serializer writes their text
ProductNames == {"Widget", "Nuts & Bolts"}
EscapeText(s) == IF s = "Nuts & Bolts" THEN "Nuts &amp; Bolts" ELSE s

\* the innerHTML getter, of an element whose innerHTML was set to markup:
\* the parser keeps tags and white space, the serializer escapes the text
innerHTML(markup) ==
    [i \in DOMAIN markup |->
        IF markup[i].k = "text" THEN Text(EscapeText(markup[i].s)) ELSE markup[i]]

\* String.prototype.trim()
trim(markup) ==
    LET solid == {i \in DOMAIN markup : markup[i].k # "ws"}
    IN  IF solid = {} THEN <<>>
        ELSE SubSeq(markup,
                    CHOOSE i \in solid : \A j \in solid : i <= j,
                    CHOOSE i \in solid : \A j \in solid : i >= j)

\* the five cells of a sale row
SaleCells(sale) ==
    <<Tag("<td>"), Text(sale.product_name), Tag("</td><td>"), Text(sale.date),
      Tag("</td><td>"), Text(ToString(sale.quantity)),
      Tag("</td><td>"), Text("$" \o toFixed(sale.total_price)),
      Tag("</td><td>"), Text(sale.sold_by), Tag("</td>")>>

NoSalesRow ==
    <<Tag("<tr><td colspan=\"5\" style=\"text-align: center;\">"),
      Text("No recent sales"), Tag("</td></tr>")>>

\* sales.map(row).join('')
RECURSIVE Rows(_, _)
Rows(sales, open) ==
    IF sales = <<>> THEN <<>>
    ELSE <<Ws, Tag(open)>> \o SaleCells(Head(sales)) \o <<Tag("</tr>"), Ws>>
         \o Rows(Tail(sales), open)

\* ... || the placeholder row: an empty string is falsy
SalesMarkup(sales, open) ==
    IF Rows(sales, open) = <<>> THEN NoSalesRow ELSE Rows(sales, open)

\* the market widget's second line
WidgetSub(name, market) ==
    name \o " <span style=\"color: "
         \o (IF market.change >= 0 THEN "var(--success-color)" ELSE "var(--danger-color)")
         \o "\">(" \o (IF market.change >= 0 THEN "+" ELSE "")
         \o Tenths(market.change_percent) \o "%)</span>"

\* -------------------------------------------------- sequential platform code

\* A handler runs on a record w: the pending awaits, the document and the
\* Platform's fields as it leaves them, plus what it did on the way: the
\* elements it wrote (touched), those whose new rendering is the string
\* rendered into them before (same), the events it delivered to
\* window.nexusAnimation (raised, the animation being on the page), and
\* whether an exception ended it (threw).
Begin(reqs) ==
    [pending |-> reqs, dom |-> dom, plat |-> plat,
     same |-> {}, touched |-> {}, raised |-> <<>>, threw |-> FALSE]

Write(w, id, content) == [w EXCEPT !.dom[id] = content, !.touched = @ \cup {id}]
Seen(w, id, rendered) == IF w.dom[id] = rendered THEN [w EXCEPT !.same = @ \cup {id}] ELSE w
Raise(w, kind, data) == [w EXCEPT !.raised = Append(@, [kind |-> kind, data |-> data])]
TypeError(w) == [w EXCEPT !.threw = TRUE]

\* this.fetchApi(endpoint) up to its await, for each endpoint in turn; cont
\* names the code that runs once all of them have settled
Fetch(w, endpoints, cont) ==
    [w EXCEPT !.pending = Append(@, Await(endpoints, cont)),
              !.raised = @ \o [j \in DOMAIN endpoints |-> Refresh(endpoints[j])]]

\* variant: the sale is raised for a change of any of the three fields
renderStatAnyField(w, id, val, stats) ==
    LET seen == Seen(w, id, String(val))
    IN  IF LooseDiffers(w.dom[id], val)
        THEN Raise(Write([seen EXCEPT !.dom[".value-update"] = @ \cup {id}], id, String(val)),
                   "sale", [amount |-> stats.today_revenue])
        ELSE seen

\* one pass of the loop of renderStats
renderStat(w, id, val, stats) ==
    LET seen == Seen(w, id, String(val))
    IN  IF LooseDiffers(w.dom[id], val)
        THEN LET written == Write([seen EXCEPT !.dom[".value-update"] = @ \cup {id}],
                                  id, String(val))
             IN  IF id = "today-revenue"
                 THEN Raise(written, "sale", [amount |-> stats.today_revenue])
                 ELSE written
        ELSE seen

renderStats(w, stats) ==
    IF w.threw THEN w
    ELSE IF Not(stats) \/ ~Has(stats, "today_revenue") THEN TypeError(w)
    ELSE LET w1 == renderStat(w, "total-products", Num(stats.total_products), stats)
             w2 == renderStat(w1, "low-stock", Num(stats.low_stock), stats)
         IN  renderStat(w2, "today-revenue", Str("$" \o toFixed(stats.today_revenue)), stats)

renderMarketWidget(w, market) ==
    IF w.threw THEN w
    ELSE IF Not(market) \/ HasError(market) THEN w
    ELSE LET val == toLocaleString(market.price)
             sub == WidgetSub(market.name, market)
             seen == Seen(Seen(w, "market-widget-value", val), "market-widget-sub", sub)
         IN  Write(Write(seen, "market-widget-value", val), "market-widget-sub", sub)

renderRecentSalesMini(w, sales) ==
    IF w.threw THEN w
    ELSE IF ~Has(sales, "list") THEN TypeError(w)
    ELSE LET newHtml == SalesMarkup(sales.list, "<tr class=\"new-row\">")
             seen == Seen(w, "recent-sales-table", newHtml)
         IN  IF trim(innerHTML(w.dom["recent-sales-table"])) # trim(newHtml)
             THEN Write(seen, "recent-sales-table", newHtml)
             ELSE seen

\* variant: the check without data.error
skipsCycleOnNullOnly(data) == Not(data)

\* if (!data || data.error) return
skipsCycle(data) == Not(data) \/ HasError(data)

\* updateHeartbeat from its await on
resumeHeartbeat(w, data) ==
    IF skipsCycle(data) THEN w
    ELSE LET w1 == renderStats(w, Field(data, "stats"))
             w2 == renderMarketWidget(w1, Field(data, "market"))
             w3 == renderRecentSalesMini(w2, Field(data, "recent_sales"))
         IN  IF w3.threw THEN w3
             ELSE Write(w3, "last-updated",
                        "Live: " \o (IF Has(data, "timestamp") THEN data.timestamp
                                     ELSE "undefined"))

\* updateHeartbeat up to its await
updateHeartbeat(w) ==
    IF path # "/dashboard" THEN w
    ELSE Fetch(w, <<"/realtime-updates">>, "updateHeartbeat")

\* ----------------------------------------------------------- market page

\* item.change >= 0 ? '+' : '', then the percentage
Signed(item) == (IF item.change >= 0 THEN "+" ELSE "") \o Tenths(item.change_percent) \o "%"
Trend(item) == IF item.change >= 0 THEN "positive" ELSE "negative"

\* toLocaleString(undefined, {minimumFractionDigits: 2}) of a whole amount
toLocaleMoney(n) == toLocaleString(n) \o ".00"

TickerItem(item) ==
    <<Ws, Tag("<div class=\"ticker-item\" onclick=\"platform.setActiveSymbol('"
              \o item.symbol \o "')\">"),
      Text(item.symbol), Text(toLocaleString(item.price)),
      Tag("<span class=\"ticker-change " \o Trend(item) \o "\">"), Text(Signed(item)),
      Tag("</div>"), Ws>>

MarketCard(item, active) ==
    <<Ws, Tag("<div class=\"market-card " \o (IF active THEN "active" ELSE "")
              \o "\" onclick=\"platform.setActiveSymbol('" \o item.symbol \o "')\">"),
      Text(item.symbol), Text(item.name), Text("$" \o toLocaleString(item.price)),
      Tag("<div class=\"change-container " \o Trend(item) \o "\">"), Text(Signed(item)),
      Tag("</div>"), Ws>>

HoldingRow(h) ==
    <<Ws, Tag("<div class=\"holding-row\" onclick=\"platform.setActiveSymbol('"
              \o h.symbol \o "')\">"),
      Text(h.symbol), Text(ToString(h.quantity)),
      Tag("<span class=\"h-pl " \o (IF h.pl >= 0 THEN "positive" ELSE "negative") \o "\">"),
      Text((IF h.pl >= 0 THEN "+" ELSE "") \o "$" \o toFixed(Abs(h.pl))),
      Tag("</div>"), Ws>>

NewsItem(news) ==
    <<Ws, Tag("<a href=\"" \o news.link \o "\" target=\"_blank\" class=\"news-item-link\">"),
      Text(news.title), Text(news.publisher), Text(news.time), Tag("</a>"), Ws>>

NoWatchlist ==
    <<Tag("<div class=\"text-muted\">"), Text("No stocks in watchlist. Search to add."),
      Tag("</div>")>>
NoNews ==
    <<Tag("<div class=\"text-muted\">"), Text("No recent news for this symbol."),
      Tag("</div>")>>
NoHoldings == <<Tag("<p class=\"text-muted\">"), Text("No holdings yet"), Tag("</p>")>>

\* data.map(item).join('') for the item templates above
RECURSIVE TickerItems(_)
TickerItems(items) ==
    IF items = <<>> THEN <<>> ELSE TickerItem(Head(items)) \o TickerItems(Tail(items))
RECURSIVE MarketCards(_, _)
MarketCards(items, activeSymbol) ==
    IF items = <<>> THEN <<>>
    ELSE MarketCard(Head(items), activeSymbol = <<Head(items).symbol>>)
         \o MarketCards(Tail(items), activeSymbol)
RECURSIVE HoldingRows(_)
HoldingRows(hs) ==
    IF hs = <<>> THEN <<>> ELSE HoldingRow(Head(hs)) \o HoldingRows(Tail(hs))
RECURSIVE NewsItems(_)
NewsItems(ns) ==
    IF ns = <<>> THEN <<>> ELSE NewsItem(Head(ns)) \o NewsItems(Tail(ns))

\* data.length === 0: only an array has a length
IsEmptyList(data) == Has(data, "list") /\ data.list = <<>>

\* the new items go in front of what the container already holds
renderIndicesTicker(w, data) ==
    IF w.threw THEN w
    ELSE IF Not(data) \/ HasError(data) THEN w
    ELSE IF ~Has(data, "list") THEN TypeError(w)
    ELSE Write(w, "indicesTicker",
               TickerItems(data.list) \o innerHTML(w.dom["indicesTicker"]))

renderWatchlistGrid(w, data) ==
    IF w.threw THEN w
    ELSE IF Not(data) \/ IsEmptyList(data) THEN Write(w, "userWatchlistGrid", NoWatchlist)
    ELSE IF ~Has(data, "list") THEN TypeError(w)
    ELSE Write(w, "userWatchlistGrid", MarketCards(data.list, w.plat.activeSymbol))

PortfolioMarkup(data) ==
    <<Ws, Text("$" \o toLocaleMoney(data.wallet)),
      Text("$" \o toLocaleMoney(data.portfolio_value)),
      Text("$" \o toLocaleMoney(data.total_account_value)), Tag("<h4>"), Text("Holdings")>>
    \o (IF Len(data.portfolio.list) > 0 THEN HoldingRows(data.portfolio.list) ELSE NoHoldings)
    \o <<Ws>>

renderPortfolio(w, data) ==
    IF w.threw THEN w
    ELSE IF Not(data) \/ HasError(data) THEN w
    ELSE Write([w EXCEPT !.plat.userWallet = <<data.wallet>>],
               "portfolioSummary", PortfolioMarkup(data))

\* [...(x || [])]: null gives nothing, an array its items, and an object
\* that is no array cannot be spread
Spreads(x) == Not(x) \/ Has(x, "list")
Spread(x) == IF Not(x) THEN <<>> ELSE x.list

Count(items, up) ==
    Cardinality({i \in DOMAIN items : (items[i].change >= 0) = up})

MarketStatsMarkup(all) ==
    <<Ws, Tag("<div class=\"stat-value\">"),
      Text(ToString(Count(all, TRUE)) \o " / " \o ToString(Len(all))),
      Tag("<div class=\"stat-value\" style=\"color: "
          \o (IF Count(all, TRUE) >= Count(all, FALSE) THEN "var(--success-color)"
              ELSE "var(--danger-color)") \o "\">"),
      Text(IF Count(all, TRUE) >= Count(all, FALSE) THEN "BULLISH" ELSE "BEARISH"),
      Tag("</div>"), Ws>>

\* variant: the two arrays are spread without the "|| []"
renderMarketStatsNoDefault(w, indices, watchlist) ==
    IF w.threw THEN w
    ELSE IF ~Has(indices, "list") \/ ~Has(watchlist, "list") THEN TypeError(w)
    ELSE Write(w, "marketStatsContainer",
               MarketStatsMarkup(indices.list \o watchlist.list))

renderMarketStats(w, indices, watchlist) ==
    IF w.threw THEN w
    ELSE IF ~Spreads(indices) \/ ~Spreads(watchlist) THEN TypeError(w)
    ELSE Write(w, "marketStatsContainer",
               MarketStatsMarkup(Spread(indices) \o Spread(watchlist)))

\* loadNews up to its await; symbol is '' for the general news
loadNews(w, symbol) ==
    IF w.threw THEN w
    ELSE Fetch(w, <<"/market/news">>, "loadNews")

\* loadNews from its await on
resumeNews(w, data) ==
    IF Not(data) \/ IsEmptyList(data) THEN Write(w, "newsFeedContainer", NoNews)
    ELSE IF ~Has(data, "list") THEN TypeError(w)
    ELSE Write(w, "newsFeedContainer", NewsItems(data.list))

\* one more click listener on the search button, one more keypress listener
\* on the search input
setupMarketSearch(w) ==
    [w EXCEPT !.dom["marketSearchBtn"].click = @ + 1,
              !.dom["marketSearchInput"].keypress = @ + 1,
              !.touched = @ \cup {"marketSearchBtn", "marketSearchInput"}]

\* the modal's handlers are properties, assigned once
setupTradeModal(w) ==
    IF w.plat.tradeModalInitialized THEN w
    ELSE [w EXCEPT !.dom["tradeModal"].handlers = TRUE,
                   !.touched = @ \cup {"tradeModal"},
                   !.plat.tradeModalInitialized = TRUE]

\* loadMarketPage up to its await of Promise.all
loadMarketPage(w) ==
    Fetch(setupTradeModal(setupMarketSearch(w)),
          <<"/market", "/market/watchlist", "/market/portfolio">>, "loadMarketPage")

\* loadMarketPage from its await on
resumeLoadMarketPage(w, globalData, watchlistData, portfolioData) ==
    LET w1 == renderIndicesTicker(w, globalData)
        w2 == renderWatchlistGrid(w1, watchlistData)
        w3 == renderPortfolio(w2, portfolioData)
        w4 == renderMarketStats(w3, globalData, watchlistData)
    IN  loadNews(w4, "")

\* ---------------------------------------------------------- realtime engine

Every(purpose, ms) == [purpose |-> purpose, every |-> ms, left |-> ms]

\* the two callbacks startRealtimeEngine hands to setInterval
Callback(w, purpose) ==
    IF purpose = "heartbeat" THEN updateHeartbeat(w)
    ELSE IF path = "/market" THEN loadMarketPage(w)
    ELSE w

\* the callbacks due once HeartbeatMs more have passed, in registration order
RECURSIVE RunDue(_, _, _)
RunDue(w, ivs, i) ==
    IF i > Len(ivs) THEN w
    ELSE RunDue(IF ivs[i].left = HeartbeatMs THEN Callback(w, ivs[i].purpose) ELSE w,
                ivs, i + 1)

Rearm(ivs) ==
    [i \in DOMAIN ivs |->
        [ivs[i] EXCEPT !.left = IF @ = HeartbeatMs THEN ivs[i].every ELSE @ - HeartbeatMs]]

\* what a fetchApi result is to its caller
Kind(data) == IF IsNull(data) THEN "null" ELSE IF HasError(data) THEN "error" ELSE "data"

\* history of a step: the handler, the results it was resumed with, what it
\* did, and how many heartbeat cycles in a row had been skipped by then
Did(op, got, w, skipped) ==
    [op |-> op, got |-> got, same |-> w.same, touched |-> w.touched,
     raised |-> w.raised, threw |-> w.threw, skipped |-> skipped]

Commit(w) ==
    /\ pending' = w.pending
    /\ dom' = w.dom
    /\ plat' = w.plat

startRealtimeEngine ==
    /\ intervals = <<>>
    /\ LET w == updateHeartbeat(Begin(pending))
       IN  /\ Commit(w)
           /\ step' = Did("startRealtimeEngine", <<>>, w, 0)
    /\ intervals' = <<Every("heartbeat", HeartbeatMs), Every("market", MarketMs)>>
    /\ UNCHANGED path
    /\ UNCHANGED animVars

\* HeartbeatMs pass and the interval callbacks that are due run.  The model
\* lets time pass only while fewer than MaxInFlight awaits are in flight and,
\* on the market page, fewer than MaxLoads loads have been started (each load
\* adds listeners and ticker items, which would grow without bound).
IntervalTick ==
    /\ intervals # <<>>
    /\ Len(pending) < MaxInFlight
    /\ path = "/market" => dom["marketSearchBtn"].click < MaxLoads
    /\ LET w == RunDue(Begin(pending), intervals, 1)
       IN  /\ Commit(w)
           /\ step' = Did("tick", <<>>, w, step.skipped)
    /\ intervals' = Rearm(intervals)
    /\ UNCHANGED path
    /\ UNCHANGED animVars

\* the snapshots /realtime-updates answers with
BaseStats == [total_products |-> 5, low_stock |-> 0, today_revenue |-> 12500]
StatsSet ==
    {BaseStats, [BaseStats EXCEPT !.total_products = 6], [BaseStats EXCEPT !.low_stock = 2],
     [BaseStats EXCEPT !.today_revenue = 12504], [BaseStats EXCEPT !.today_revenue = 20000]}
WidgetQuotes ==
    {[name |-> "S&P 500", price |-> 4500, change |-> 15, change_percent |-> 15],
     [name |-> "S&P 500", price |-> 4512, change |-> -30, change_percent |-> -30],
     [error |-> "No data"]}
Sale(name) ==
    [product_name |-> name, date |-> "2024-05-01", quantity |-> 2,
     total_price |-> 19980, sold_by |-> "admin"]
SalesSet == {List(<<>>)} \cup {List(<<Sale(n)>>) : n \in ProductNames}
Stamps == {"10:00:00", "10:00:05"}
BaseSnapshot ==
    [stats |-> BaseStats,
     market |-> [name |-> "S&P 500", price |-> 4500, change |-> 15, change_percent |-> 15],
     recent_sales |-> List(<<>>), timestamp |-> "10:00:00"]

\* the base snapshot and those that differ from it in one section
Snapshots ==
    {[BaseSnapshot EXCEPT !.stats = s] : s \in StatsSet}
    \cup {[BaseSnapshot EXCEPT !.market = m] : m \in WidgetQuotes}
    \cup {[BaseSnapshot EXCEPT !.recent_sales = r] : r \in SalesSet}
    \cup {[BaseSnapshot EXCEPT !.timestamp = t] : t \in Stamps}

\* a section is missing
Lacking(snap, section) == [f \in DOMAIN snap \ {section} |-> snap[f]]
PartialSnapshots == {Lacking(BaseSnapshot, sec) : sec \in {"stats", "market", "recent_sales"}}

\* what the network does to a request whose good body is one of bodies
Replies(bodies) ==
    {Failure, Response(500, Garbage)} \cup {Response(200, b) : b \in bodies}

\* what the network does to a heartbeat request
HeartbeatOutcomes ==
    Replies({Garbage, Null, [error |-> "Unauthorized"]} \cup Snapshots \cup PartialSnapshots)

Skipped(data, before) ==
    IF skipsCycle(data) THEN (IF before < MaxSkipped THEN before + 1 ELSE before) ELSE 0

HeartbeatResumes ==
    \E i \in DOMAIN pending : \E o \in HeartbeatOutcomes :
        /\ pending[i].cont = "updateHeartbeat"
        /\ LET data == fetchApi(o)
               w == resumeHeartbeat(Begin(Without(pending, i)), data)
           IN  /\ Commit(w)
               /\ step' = Did("updateHeartbeat", <<Kind(data)>>, w,
                              Skipped(data, step.skipped))
        /\ UNCHANGED <<path, intervals>>
        /\ UNCHANGED animVars

\* setTimeout(() => el.classList.remove('value-update'), 1000)
RemoveValueUpdate ==
    \E id \in (IF ".value-update" \in DOMAIN dom THEN dom[".value-update"] ELSE {}) :
        /\ dom' = [dom EXCEPT ![".value-update"] = @ \ {id}]
        /\ step' = Did("removeValueUpdate", <<>>, Begin(pending), step.skipped)
        /\ UNCHANGED <<path, plat, intervals, pending>>
        /\ UNCHANGED animVars

NewPlatform == [activeSymbol |-> <<>>, userWallet |-> <<>>, tradeModalInitialized |-> FALSE]
NoStep == [op |-> "none", skipped |-> 0]

\* the dashboard as the server sent it
DashboardPage ==
    "total-products" :> "5" @@ "low-stock" :> "0" @@ "today-revenue" :> "$12.50"
    @@ ".value-update" :> {} @@ "market-widget-value" :> "--" @@ "market-widget-sub" :> ""
    @@ "recent-sales-table" :> NoSalesRow @@ "last-updated" :> ""

\* The page right after init() has reached startRealtimeEngine.  The load
\* init() starts before that (loadDynamicData) is an activity of its own and
\* is left out here: this specification is the realtime engine.
DashInit ==
    /\ AnimStart
    /\ path = "/dashboard"
    /\ plat = NewPlatform
    /\ intervals = <<>>
    /\ pending = <<>>
    /\ dom = DashboardPage
    /\ step = NoStep

DashNext == startRealtimeEngine \/ IntervalTick \/ HeartbeatResumes \/ RemoveValueUpdate

SpecDash == DashInit /\ [][DashNext]_vars

\* -------------------------------------------------------- market page engine

Index == [symbol |-> "^GSPC", name |-> "S&P 500", price |-> 4500,
          change |-> 15, change_percent |-> 15]
Stock == [symbol |-> "AAPL", name |-> "Apple Inc.", price |-> 150,
          change |-> -3, change_percent |-> -20]
Holding == [symbol |-> "AAPL", quantity |-> 3, pl |-> -4500]
Story == [link |-> "https://news.example/1", title |-> "Markets rally",
          publisher |-> "Newswire", time |-> "09:30"]
Account(holdings) ==
    [wallet |-> 10000, portfolio_value |-> 450, total_account_value |-> 10450,
     portfolio |-> List(holdings)]

IndicesBodies == {List(<<Index>>), [error |-> "Failed to fetch market data"]}
WatchlistBodies == {List(<<>>), List(<<Stock>>), [error |-> "Unauthorized"]}
PortfolioBodies == {Account(<<>>), Account(<<Holding>>), [error |-> "Unauthorized"]}
NewsBodies == {List(<<>>), List(<<Story>>), [error |-> "Failed to fetch news"]}

LoadMarketPageResumes ==
    \E i \in DOMAIN pending :
      \E o1 \in Replies(IndicesBodies) : \E o2 \in Replies(WatchlistBodies) :
        \E o3 \in Replies(PortfolioBodies) :
          /\ pending[i].cont = "loadMarketPage"
          /\ LET globalData == fetchApi(o1)
                 watchlistData == fetchApi(o2)
                 portfolioData == fetchApi(o3)
                 w == resumeLoadMarketPage(Begin(Without(pending, i)),
                                           globalData, watchlistData, portfolioData)
             IN  /\ Commit(w)
                 /\ step' = Did("loadMarketPage",
                                <<Kind(globalData), Kind(watchlistData), Kind(portfolioData)>>,
                                w, step.skipped)
          /\ UNCHANGED <<path, intervals>>
          /\ UNCHANGED animVars

NewsResumes ==
    \E i \in DOMAIN pending : \E o \in Replies(NewsBodies) :
        /\ pending[i].cont = "loadNews"
        /\ LET data == fetchApi(o)
               w == resumeNews(Begin(Without(pending, i)), data)
           IN  /\ Commit(w)
               /\ step' = Did("loadNews", <<Kind(data)>>, w, step.skipped)
        /\ UNCHANGED <<path, intervals>>
        /\ UNCHANGED animVars

\* the market page as the server sent it
MarketPage ==
    "indicesTicker" :> <<>> @@ "userWatchlistGrid" :> <<>> @@ "portfolioSummary" :> <<>>
    @@ "marketStatsContainer" :> <<>> @@ "newsFeedContainer" :> <<>>
    @@ "marketSearchBtn" :> [innerHTML |-> "Search", click |-> 0]
    @@ "marketSearchInput" :> [value |-> "", keypress |-> 0]
    @@ "tradeModal" :> [display |-> "none", handlers |-> FALSE]

\* The market page right after init() has reached startRealtimeEngine; the
\* load loadDynamicData starts before that is left out, as on the dashboard,
\* so the first load of this specification is the one of the 15-second timer.
MarketInit ==
    /\ AnimStart
    /\ path = "/market"
    /\ plat = NewPlatform
    /\ intervals = <<>>
    /\ pending = <<>>
    /\ dom = MarketPage
    /\ step = NoStep

MarketNext == startRealtimeEngine \/ IntervalTick \/ LoadMarketPageResumes \/ NewsResumes

SpecMarket == MarketInit /\ [][MarketNext]_vars

\* -------------------------------------------------------- dashboard load

\* Number.prototype.toFixed(2) of a percentage kept in tenths
toFixedTenths(n) ==
    (IF n < 0 THEN "-" ELSE "") \o ToString(Abs(n) \div 10) \o "."
        \o ToString(Abs(n) % 10) \o "0"

\* el.textContent = obj.f: a number is written as its numeral, and a
\* property that is not there (undefined) empties the element
TextOf(obj, f) == IF Has(obj, f) THEN ToString(obj[f]) ELSE ""

\* String.prototype.toLowerCase, on the statuses the server sends
toLowerCase(s) ==
    CASE s = "SECURE" -> "secure"
      [] s = "ALERT" -> "alert"
      [] OTHER -> s

PulseCard(item) ==
    <<Ws, Tag("<div class=\"pulse-card\">"), Text(item.name), Text(item.symbol),
      Text(toLocaleString(item.price)),
      Tag("<span style=\"color: var(--" \o item.color \o "-color)\">"),
      Text((IF item.change > 0 THEN "+" ELSE "") \o toFixedTenths(item.change_percent) \o "%"),
      Tag("</div>"), Ws>>

RECURSIVE PulseCards(_)
PulseCards(items) ==
    IF items = <<>> THEN <<>> ELSE PulseCard(Head(items)) \o PulseCards(Tail(items))

renderGlobalPulse(w, marketData) ==
    IF w.threw THEN w
    ELSE IF ~Has(marketData, "list") THEN TypeError(w)
    ELSE Write(w, "global-pulse-grid", PulseCards(marketData.list))

\* the badge, the scanner (shown now, hidden by a timer 3000 ms later) and
\* the alert of the animation, raised without a payload
updateSecurityUI(w, security) ==
    IF w.threw THEN w
    ELSE IF ~Has(security, "status")
         THEN TypeError(Write(w, "security-status-badge",
                              [w.dom["security-status-badge"] EXCEPT !.textContent = ""]))
    ELSE LET badged == Write(w, "security-status-badge",
                             [textContent |-> security.status,
                              className |-> "status-badge " \o toLowerCase(security.status)])
             shown == Write(badged, "security-scanner", [display |-> "block"])
         IN  IF security.status # "SECURE" THEN Raise(shown, "low_stock", Undefined)
             ELSE shown

\* loadAIInsights up to its first await
loadAIInsights(w) ==
    IF w.threw THEN w ELSE Fetch(w, <<"/ai/market-insights">>, "loadAIInsights")

\* the first lines of renderDashboard: the three .stat-value elements
renderDashboardStats(w, data) ==
    LET w1 == Write(w, "total-products", TextOf(data, "total_products"))
        w2 == Write(w1, "low-stock", TextOf(data, "low_stock"))
    IN  IF ~Has(data, "today_revenue") THEN TypeError(w2)
        ELSE LET w3 == Write(w2, "today-revenue", "$" \o toFixed(data.today_revenue))
             IN  IF Has(data, "low_stock") /\ data.low_stock > 0
                 THEN Raise(w3, "low_stock", [count |-> data.low_stock])
                 ELSE w3

renderDashboardSales(w, data) ==
    IF w.threw THEN w
    ELSE IF ~Has(data, "recent_sales") \/ ~Has(data.recent_sales, "list") THEN TypeError(w)
    ELSE Write(w, "recent-sales-table", SalesMarkup(data.recent_sales.list, "<tr>"))

renderDashboard(w, data) ==
    LET w1 == renderDashboardStats(w, data)
        w2 == IF w1.threw THEN w1
              ELSE Fetch(w1, <<"/market/search?symbol=^GSPC">>, "renderDashboard")
        w3 == renderDashboardSales(w2, data)
        w4 == IF ~w3.threw /\ Has(data, "global_market")
              THEN renderGlobalPulse(w3, data.global_market) ELSE w3
        w5 == IF ~w4.threw /\ Has(data, "security")
              THEN updateSecurityUI(w4, data.security) ELSE w4
    IN  loadAIInsights(w5)

\* the then-callback of the widget fetch in renderDashboard
resumeRenderDashboard(w, marketData) ==
    IF ~Not(marketData) /\ ~HasError(marketData)
    THEN LET w1 == Write(w, "market-widget-value", toLocaleString(marketData.price))
             w2 == Write(w1, "market-widget-sub", WidgetSub("S&P 500", marketData))
         IN  Raise(w2, "market_update", marketUpdatePayload(marketData))
    ELSE Write(w, "market-widget-value", "Unavailable")

\* the advice is text of several lines: a line is its text and whether it
\* begins with a digit, a dot and a space, which become a bullet (U+2022,
\* written here as an asterisk)
AdviceLine(line) ==
    <<Tag("<div style=\"margin-bottom: 5px;\">"),
      Text((IF line.numbered THEN "* " ELSE "") \o line.text), Tag("</div>")>>

RECURSIVE FormattedAdvice(_)
FormattedAdvice(lines) ==
    IF lines = <<>> THEN <<>>
    ELSE (IF Head(lines).numbered \/ Head(lines).text # "" THEN AdviceLine(Head(lines))
          ELSE <<>>)
         \o FormattedAdvice(Tail(lines))

\* loadAIInsights from its first await to its second
resumeLoadAIInsights(w, data) ==
    LET w1 == IF ~Not(data) /\ Has(data, "insights")
              THEN Write(w, "ai-market-text",
                         [textContent |-> data.insights, fadeIn |-> TRUE])
              ELSE w
    IN  Fetch(w1, <<"/ai/inventory-advice">>, "loadAIInsights2")

\* loadAIInsights from its second await on
resumeLoadAIInsights2(w, data) ==
    IF ~Not(data) /\ Has(data, "advice")
    THEN Write(w, "ai-inventory-text",
               [innerHTML |-> FormattedAdvice(data.advice), fadeIn |-> TRUE])
    ELSE w

\* ------------------------------------------------ products and sales pages

\* a number in a template literal, the number kept in thousandths
Thousandths(n) ==
    IF n % 1000 = 0 THEN ToString(n \div 1000)
    ELSE IF n % 100 = 0 THEN ToString(n \div 1000) \o "." \o ToString((n % 1000) \div 100)
    ELSE IF n % 10 = 0 THEN ToString(n \div 1000) \o "." \o Digits2((n % 1000) \div 10)
    ELSE ToString(n \div 1000) \o "." \o Digits3(n % 1000)

\* x || fallback, of a string property: a missing and an empty one are falsy
OrElse(obj, f, fallback) == IF Has(obj, f) /\ obj[f] # "" THEN obj[f] ELSE fallback

ProductRow(p, index, role) ==
    <<Ws, Tag("<tr>"), Text(ToString(index)), Text(p.name), Text(p.category),
      Text("$" \o toFixed(p.price)),
      Tag("<span class=\"" \o (IF p.quantity <= 5 THEN "text-danger" ELSE "text-success") \o "\">"),
      Text(ToString(p.quantity)), Tag("</span>"), Text(p.supplier)>>
    \o (IF role = "Admin"
        THEN <<Tag("<button class=\"btn edit-btn\" data-id=\"" \o p._id
                     \o "\" data-price=\"" \o Thousandths(p.price)
                     \o "\" data-serial-number=\"" \o OrElse(p, "serial_number", "") \o "\">"),
               Tag("<a href=\"/products/delete/" \o p._id \o "\">")>>
        ELSE <<>>)
    \o <<Tag("</tr>"), Ws>>

RECURSIVE ProductRows(_, _, _)
ProductRows(products, index, role) ==
    IF products = <<>> THEN <<>>
    ELSE ProductRow(Head(products), index, role) \o ProductRows(Tail(products), index + 1, role)

NoProductsRow ==
    <<Tag("<tr>"), Tag("<td colspan=\"7\" style=\"text-align: center;\">"),
      Text("No products found"), Tag("</td></tr>")>>

\* the click listeners on the .edit-btn buttons of the document, one count
\* per button: setupEditButtons adds one listener to each
setupEditButtons(w) ==
    Write(w, ".edit-btn", [i \in DOMAIN w.dom[".edit-btn"] |-> w.dom[".edit-btn"][i] + 1])

renderProducts(w, data) ==
    IF ~Has(data, "products") \/ ~Has(data.products, "list") THEN TypeError(w)
    ELSE LET rows == ProductRows(data.products.list, 1, w.dom["window.currentRole"])
             w1 == Write(w, "productTable", IF rows = <<>> THEN NoProductsRow ELSE rows)
             buttons == IF w.dom["window.currentRole"] = "Admin"
                        THEN [i \in DOMAIN data.products.list |-> 0] ELSE <<>>
         IN  setupEditButtons([w1 EXCEPT !.dom[".edit-btn"] = buttons])

\* a <select>: its options and the index of the selected one, 0 for none
Option(value, text) == [value |-> value, text |-> text]
Placeholder == Option("", "Choose a product...")

\* the value getter of a select
SelectValue(select) ==
    IF select.selectedIndex = 0 THEN "" ELSE select.options[select.selectedIndex].value

\* variant: the assignment is not made
setSelectValueIgnored(select, v) == select

\* select.value = v: the first option of that value is selected, and none
\* is when no option has it
setSelectValue(select, v) ==
    LET hits == {i \in DOMAIN select.options : select.options[i].value = v}
    IN  [select EXCEPT !.selectedIndex =
            IF hits = {} THEN 0 ELSE CHOOSE i \in hits : \A j \in hits : i <= j]

\* the options renderSales writes; ids are hexadecimal, which an attribute
\* value keeps as written.  The placeholder carries the selected attribute.
ProductOptions(products) ==
    <<Placeholder>>
    \o [i \in DOMAIN products |->
          Option(products[i]._id,
                 products[i].name \o " (Stock: " \o ToString(products[i].quantity) \o ")")]

TxnRow(txn, index) ==
    <<Ws, Tag("<tr>"), Text(ToString(index)), Text(txn.date), Text(txn.product_name),
      Text(OrElse(txn, "supplier_name", "N/A")), Text(OrElse(txn, "customer_name", "N/A")),
      Text(ToString(txn.quantity)), Text("$" \o toFixed(txn.total_price)),
      Text(txn.sold_by), Tag("</tr>"), Ws>>

RECURSIVE TxnRows(_, _)
TxnRows(txns, index) ==
    IF txns = <<>> THEN <<>>
    ELSE TxnRow(Head(txns), index) \o TxnRows(Tail(txns), index + 1)

NoTransactionsRow ==
    <<Tag("<tr>"), Tag("<td colspan=\"8\" style=\"text-align: center;\">"),
      Text("No transactions found"), Tag("</td></tr>")>>

\* tbody.querySelectorAll('tr').length
CountRows(markup) == Cardinality({i \in DOMAIN markup : markup[i] = Tag("<tr>")})

renderSalesSelect(w, data) ==
    IF ~Has(data, "products") \/ ~Has(data.products, "list") THEN TypeError(w)
    ELSE LET currentSelected == SelectValue(w.dom["productSelect"])
             rewritten == [options |-> ProductOptions(data.products.list), selectedIndex |-> 1]
         IN  Write(w, "productSelect",
                   IF currentSelected # "" THEN setSelectValue(rewritten, currentSelected)
                   ELSE rewritten)

renderSalesTable(w, data) ==
    IF w.threw THEN w
    ELSE IF ~Has(data, "transactions") \/ ~Has(data.transactions, "list") THEN TypeError(w)
    ELSE LET txns == data.transactions.list
             oldTransactionsCount == CountRows(w.dom["salesTable"])
             rows == TxnRows(txns, 1)
             w1 == Write(w, "salesTable", IF rows = <<>> THEN NoTransactionsRow ELSE rows)
         IN  IF Len(txns) > oldTransactionsCount
             THEN Raise(w1, "sale", [amount |-> txns[1].total_price])
             ELSE w1

renderSales(w, data) == renderSalesTable(renderSalesSelect(w, data), data)

\* -------------------------------------------------- sales page re-renders

Product(id, name, quantity) ==
    [_id |-> id, name |-> name, category |-> "Hardware", price |-> 19990,
     quantity |-> quantity, supplier |-> "Acme"]
Widget == Product("665f1a", "Widget", 12)
Gasket == Product("665f1b", "Gasket", 3)
Bolts == Product("665f1c", "Nuts & Bolts", 40)
ProductLists ==
    {<<>>, <<Widget>>, <<Widget, Gasket>>, <<Gasket, Widget>>, <<Gasket, Bolts>>,
     <<[Widget EXCEPT !.quantity = 11], Gasket, Bolts>>}

Txn(name) ==
    [date |-> "2024-05-01", product_name |-> name, customer_name |-> "",
     quantity |-> 2, total_price |-> 39980, sold_by |-> "admin"]
TxnLists == {<<>>, <<Txn("Widget")>>, <<Txn("Gasket"), Txn("Widget")>>}

SalesBodies ==
    {[products |-> List(ps), transactions |-> List(ts)] : ps \in ProductLists, ts \in TxnLists}
    \cup {[transactions |-> List(<<>>)], [products |-> List(<<Widget>>)]}

\* the sales page as the server sent it
SalesPage ==
    "productSelect" :> [options |-> ProductOptions(<<Widget, Gasket>>), selectedIndex |-> 1]
    @@ "salesTable" :> NoTransactionsRow

\* the user picks a product in the dropdown; the placeholder is disabled
SelectProduct ==
    \E i \in DOMAIN dom["productSelect"].options :
        /\ i > 1
        /\ dom' = [dom EXCEPT !["productSelect"].selectedIndex = i]
        /\ step' = Did("select", <<>>, Begin(pending), 0)
        /\ UNCHANGED <<path, plat, intervals, pending>>
        /\ UNCHANGED animVars

\* renderSales is called with a snapshot of /sales
RenderSales ==
    \E data \in SalesBodies :
        /\ LET w == renderSales(Begin(pending), data)
           IN  /\ Commit(w)
               /\ step' = Did("renderSales", <<Kind(data)>>, w, 0)
        /\ UNCHANGED <<path, intervals>>
        /\ UNCHANGED animVars

SalesInit ==
    /\ AnimStart
    /\ path = "/sales"
    /\ plat = NewPlatform
    /\ intervals = <<>>
    /\ pending = <<>>
    /\ dom = SalesPage
    /\ step = NoStep

SalesNext == SelectProduct \/ RenderSales

SpecSales == SalesInit /\ [][SalesNext]_vars

\* ----------------------------------------------- active symbol, trade modal

\* updateIndicators up to its await
updateIndicators(w, symbol) ==
    IF w.threw THEN w
    ELSE Fetch(Write(w, "techIndicators", [w.dom["techIndicators"] EXCEPT !.display = "none"]),
               <<"/market/indicators?symbol=" \o symbol>>, "updateIndicators")

\* updateIndicators from its await on
resumeUpdateIndicators(w, data) ==
    IF Not(data) \/ HasError(data) THEN w
    ELSE Write(w, "techIndicators",
               [display |-> "flex", signalVal |-> OrElse(data, "signal", "--"),
                color |-> IF Has(data, "signal") /\ data.signal = "OVERBOUGHT"
                          THEN "var(--danger-color)"
                          ELSE IF Has(data, "signal") /\ data.signal = "OVERSOLD"
                          THEN "var(--success-color)"
                          ELSE "var(--text-secondary)"])

\* updateActiveInfo up to its await
updateActiveInfo(w, symbol) ==
    IF w.threw THEN w
    ELSE Fetch(w, <<"/market/search?symbol=" \o symbol>>, "updateActiveInfo")

\* variant: the quote that arrives also becomes the price of the trade
resumeUpdateActiveInfoRepricing(w, data) ==
    IF Not(data) \/ HasError(data) THEN w
    ELSE LET named == Write(w, "activeSymbol",
                            [name |-> data.name,
                             price |-> "$" \o toLocaleString(data.price),
                             change |-> (IF data.change >= 0 THEN "+" ELSE "")
                                        \o Tenths(data.change) \o " ("
                                        \o Tenths(data.change_percent) \o "%)",
                             className |-> "active-change " \o Trend(data)])
             armed == Write(Write(named, "buyBtn", [disabled |-> FALSE, onclick |-> <<data>>]),
                            "sellBtn", [disabled |-> FALSE, onclick |-> <<data>>])
         IN  Raise([armed EXCEPT !.plat = [currentTradePrice |-> <<data.price>>] @@ @],
                   "market_update", marketUpdatePayload(data))

\* updateActiveInfo from its await on: the name, price and change of the
\* active symbol, the two trading buttons (enabled, their onclick closing
\* over this quote) and the market_update event
resumeUpdateActiveInfo(w, data) ==
    IF Not(data) \/ HasError(data) THEN w
    ELSE LET named == Write(w, "activeSymbol",
                            [name |-> data.name,
                             price |-> "$" \o toLocaleString(data.price),
                             change |-> (IF data.change >= 0 THEN "+" ELSE "")
                                        \o Tenths(data.change) \o " ("
                                        \o Tenths(data.change_percent) \o "%)",
                             className |-> "active-change " \o Trend(data)])
             armed == Write(Write(named, "buyBtn", [disabled |-> FALSE, onclick |-> <<data>>]),
                            "sellBtn", [disabled |-> FALSE, onclick |-> <<data>>])
         IN  Raise(armed, "market_update", marketUpdatePayload(data))

\* setActiveSymbol without the chart widget, which is third-party code
setActiveSymbol(w, symbol) ==
    IF w.plat.activeSymbol = <<symbol>> THEN w
    ELSE LET w1 == [w EXCEPT !.plat.activeSymbol = <<symbol>>]
         IN  updateIndicators(loadNews(updateActiveInfo(w1, symbol), symbol), symbol)

\* the fields of the Platform that openTradeModal assigns; before the first
\* call they are not there (undefined)
Trade(stock, type) ==
    [currentTradeSymbol |-> <<stock.symbol>>, currentTradePrice |-> <<stock.price>>,
     currentTradeType |-> <<type>>]

openTradeModal(w, stock, type) ==
    LET w1 == [w EXCEPT !.plat = Trade(stock, type) @@ @]
        w2 == Write(w1, "tradeHeader",
                    [title |-> (IF type = "BUY" THEN "Buy " ELSE "Sell ") \o stock.symbol,
                     tradeSymbol |-> stock.symbol,
                     tradePrice |-> "$" \o toLocaleString(stock.price),
                     tradeWallet |-> w1.dom["tradeHeader"].tradeWallet])
    IN  IF w2.plat.userWallet = <<>> THEN TypeError(w2)
        ELSE LET w3 == Write(w2, "tradeHeader",
                             [w2.dom["tradeHeader"] EXCEPT
                                 !.tradeWallet = "$" \o toLocaleString(w2.plat.userWallet[1])])
                 w4 == Write(Write(w3, "tradeQuantity", "1"),
                             "tradeTotal", "$" \o toLocaleString(stock.price))
                 w5 == Write(w4, "confirmTradeBtn",
                             [w4.dom["confirmTradeBtn"] EXCEPT
                                 !.className = "btn btn-block "
                                     \o (IF type = "BUY" THEN "btn-success" ELSE "btn-danger"),
                                 !.textContent = "Confirm " \o type])
             IN  Write(w5, "tradeModal", [w5.dom["tradeModal"] EXCEPT !.display = "block"])

\* parseFloat(value) || 0, of what the quantity field can hold
QtyInputs == {"", "2", "3"}
parseFloatOr0(value) ==
    CASE value = "1" -> 1
      [] value = "2" -> 2
      [] value = "3" -> 3
      [] OTHER -> 0

\* qtyInput.oninput
oninput(w) ==
    LET total == parseFloatOr0(w.dom["tradeQuantity"]) * w.plat.currentTradePrice[1]
    IN  Write(w, "tradeTotal", "$" \o toLocaleMoney(total))

TradeSymbols == {"AAPL", "MSFT"}
Quote(symbol, price, change) ==
    [symbol |-> symbol, name |-> symbol, price |-> price, change |-> change,
     change_percent |-> change]

\* what the network does to a /market/search request for a symbol
QuotesAt(endpoint) ==
    IF endpoint = "/market/search?symbol=AAPL"
    THEN {Response(200, Quote("AAPL", 150, -20)), Response(200, [error |-> "No data"])}
    ELSE {Response(200, Quote("MSFT", 300, 5)), Failure}

IndicatorBodies == {[sma_20 |-> 148, rsi |-> 71, signal |-> "OVERBOUGHT"], [error |-> "No data"]}

\* the user clicks a card, a ticker item or a holding, while no request is in
\* flight (the model's bound on concurrent requests)
SetActiveSymbol ==
    \E symbol \in TradeSymbols :
        /\ pending = <<>>
        /\ LET w == setActiveSymbol(Begin(pending), symbol)
           IN  /\ Commit(w)
               /\ step' = Did("setActiveSymbol", <<>>, w, step.skipped)
        /\ UNCHANGED <<path, intervals>>
        /\ UNCHANGED animVars

ActiveInfoResumes ==
    \E i \in DOMAIN pending : \E o \in QuotesAt(pending[i].endpoints[1]) :
        /\ pending[i].cont = "updateActiveInfo"
        /\ LET data == fetchApi(o)
               w == resumeUpdateActiveInfo(Begin(Without(pending, i)), data)
           IN  /\ Commit(w)
               /\ step' = Did("updateActiveInfo", <<Kind(data)>>, w, step.skipped)
        /\ UNCHANGED <<path, intervals>>
        /\ UNCHANGED animVars

IndicatorsResume ==
    \E i \in DOMAIN pending : \E o \in {Failure} \cup {Response(200, b) : b \in IndicatorBodies} :
        /\ pending[i].cont = "updateIndicators"
        /\ LET data == fetchApi(o)
               w == resumeUpdateIndicators(Begin(Without(pending, i)), data)
           IN  /\ Commit(w)
               /\ step' = Did("updateIndicators", <<Kind(data)>>, w, step.skipped)
        /\ UNCHANGED <<path, intervals>>
        /\ UNCHANGED animVars

\* the user clicks Buy or Sell: the button's onclick opens the modal with
\* the quote the button was armed with
ClickTrade ==
    \E type \in {"BUY", "SELL"} :
        /\ ~dom["buyBtn"].disabled
        /\ LET button == IF type = "BUY" THEN "buyBtn" ELSE "sellBtn"
               w == openTradeModal(Begin(pending), dom[button].onclick[1], type)
           IN  /\ Commit(w)
               /\ step' = Did("openTradeModal", <<>>, w, step.skipped)
        /\ UNCHANGED <<path, intervals>>
        /\ UNCHANGED animVars

\* the user edits the quantity in the open modal
InputQuantity ==
    \E value \in QtyInputs :
        /\ dom["tradeModal"].display = "block"
        /\ dom["tradeModal"].handlers
        /\ LET w == oninput(Write(Begin(pending), "tradeQuantity", value))
           IN  /\ Commit(w)
               /\ step' = Did("oninput", <<>>, w, step.skipped)
        /\ UNCHANGED <<path, intervals>>
        /\ UNCHANGED animVars

\* the 15-second load of the trading page resumes; its three requests have
\* all failed or have all brought their usual bodies
TradePageRefreshes ==
    \E i \in DOMAIN pending : \E ok \in BOOLEAN :
      \E o1 \in {IF ok THEN Response(200, List(<<Index>>)) ELSE Failure} :
        \E o2 \in {IF ok THEN Response(200, List(<<Stock>>)) ELSE Failure} :
          \E o3 \in {IF ok THEN Response(200, Account(<<Holding>>)) ELSE Failure} :
            /\ pending[i].cont = "loadMarketPage"
            /\ LET w == resumeLoadMarketPage(Begin(Without(pending, i)),
                                             fetchApi(o1), fetchApi(o2), fetchApi(o3))
               IN  /\ Commit(w)
                   /\ step' = Did("loadMarketPage",
                                  <<Kind(fetchApi(o1)), Kind(fetchApi(o2)), Kind(fetchApi(o3))>>,
                                  w, step.skipped)
            /\ UNCHANGED <<path, intervals>>
            /\ UNCHANGED animVars

\* closeBtn.onclick
CloseModal ==
    /\ dom["tradeModal"].display = "block"
    /\ dom["tradeModal"].handlers
    /\ LET w == Write(Begin(pending), "tradeModal", [dom["tradeModal"] EXCEPT !.display = "none"])
       IN  /\ Commit(w)
           /\ step' = Did("closeModal", <<>>, w, step.skipped)
    /\ UNCHANGED <<path, intervals>>
    /\ UNCHANGED animVars

\* the market page with its trading panel
TradePage ==
    MarketPage
    @@ "activeSymbol" :> [name |-> "", price |-> "", change |-> "", className |-> ""]
    @@ "buyBtn" :> [disabled |-> TRUE, onclick |-> <<>>]
    @@ "sellBtn" :> [disabled |-> TRUE, onclick |-> <<>>]
    @@ "techIndicators" :> [display |-> "none", signalVal |-> "--", color |-> ""]
    @@ "tradeHeader" :> [title |-> "", tradeSymbol |-> "", tradePrice |-> "", tradeWallet |-> ""]
    @@ "tradeQuantity" :> "" @@ "tradeTotal" :> ""
    @@ "confirmTradeBtn" :> [className |-> "btn btn-block", textContent |-> "", disabled |-> FALSE]

TradeInit ==
    /\ AnimStart
    /\ path = "/market"
    /\ plat = NewPlatform
    /\ intervals = <<>>
    /\ pending = <<>>
    /\ dom = TradePage
    /\ step = NoStep

TradeNext ==
    \/ startRealtimeEngine \/ IntervalTick \/ TradePageRefreshes \/ NewsResumes
    \/ SetActiveSymbol \/ ActiveInfoResumes \/ IndicatorsResume
    \/ ClickTrade \/ InputQuantity \/ CloseModal

SpecTrade == TradeInit /\ [][TradeNext]_vars

\* ------------------------------------------------------------- page load

\* variant: the load of the page is left to the timers
loadDynamicDataDeferred(w) == w

\* loadDynamicData up to its await
loadDynamicData(w) ==
    CASE path = "/dashboard" -> Fetch(w, <<"/summary">>, "loadDynamicData")
      [] path = "/products" -> Fetch(w, <<"/products">>, "loadDynamicData")
      [] path = "/sales" -> Fetch(w, <<"/sales">>, "loadDynamicData")
      [] path = "/market" -> loadMarketPage(w)
      [] OTHER -> w

\* loadDynamicData from its await on: if (data) this.render...(data)
resumeLoadDynamicData(w, data) ==
    IF Not(data) THEN w
    ELSE CASE path = "/dashboard" -> renderDashboard(w, data)
           [] path = "/products" -> renderProducts(w, data)
           [] path = "/sales" -> renderSales(w, data)
           [] OTHER -> w

\* variant: a second heartbeat interval
EngineTimersTwice ==
    <<Every("heartbeat", HeartbeatMs), Every("heartbeat", HeartbeatMs),
      Every("market", MarketMs)>>

\* the two setInterval calls of startRealtimeEngine
EngineTimers == <<Every("heartbeat", HeartbeatMs), Every("market", MarketMs)>>

\* new Platform() on DOMContentLoaded: the constructor calls init(), which
\* (after the set-up of search box, theme and links) starts the load of the
\* page and then the realtime engine
init ==
    /\ intervals = <<>>
    /\ LET w == updateHeartbeat(loadDynamicData(Begin(pending)))
       IN  /\ Commit(w)
           /\ step' = Did("init", <<>>, w, 0)
    /\ intervals' = EngineTimers
    /\ UNCHANGED path
    /\ UNCHANGED animVars

Paths == {"/dashboard", "/market", "/products", "/sales", "/"}

PulseItem ==
    [name |-> "NASDAQ", symbol |-> "^IXIC", price |-> 14200, color |-> "success",
     change |-> 12, change_percent |-> 12]
Summary ==
    [total_products |-> 5, low_stock |-> 2, today_revenue |-> 12500,
     recent_sales |-> List(<<Sale("Widget")>>), global_market |-> List(<<PulseItem>>),
     security |-> [status |-> "ALERT"]]
SummaryBodies ==
    {Summary,
     [total_products |-> 6, low_stock |-> 0, today_revenue |-> 0,
      recent_sales |-> List(<<>>), security |-> [status |-> "SECURE"]],
     [error |-> "Unauthorized"]}
ProductsBodies ==
    {[products |-> List(<<Widget, Gasket>>)], [products |-> List(<<>>)],
     [error |-> "Unauthorized"]}
InsightBodies == {[insights |-> "Markets are calm."], [error |-> "AI unavailable"]}
AdviceBodies ==
    {[advice |-> <<[numbered |-> TRUE, text |-> "Reorder gaskets"],
                   [numbered |-> FALSE, text |-> ""],
                   [numbered |-> FALSE, text |-> "Stock is healthy otherwise"]>>],
     [error |-> "AI unavailable"]}

\* the bodies the endpoint of a page load answers with
LoadBodies(endpoint) ==
    CASE endpoint = "/summary" -> SummaryBodies
      [] endpoint = "/products" -> ProductsBodies
      [] OTHER -> {[products |-> List(<<Gasket, Widget>>),
                    transactions |-> List(<<Txn("Widget")>>)],
                   [error |-> "Unauthorized"]}

LoadDynamicDataResumes ==
    \E i \in DOMAIN pending : \E o \in Replies(LoadBodies(pending[i].endpoints[1])) :
        /\ pending[i].cont = "loadDynamicData"
        /\ LET data == fetchApi(o)
               w == resumeLoadDynamicData(Begin(Without(pending, i)), data)
           IN  /\ Commit(w)
               /\ step' = Did("loadDynamicData", <<Kind(data)>>, w, step.skipped)
        /\ UNCHANGED <<path, intervals>>
        /\ UNCHANGED animVars

\* the continuations of the dashboard load: the widget's quote, the two
\* AI texts
DashboardLoadResumes ==
    \E i \in DOMAIN pending :
        /\ pending[i].cont \in {"renderDashboard", "loadAIInsights", "loadAIInsights2"}
        /\ \E o \in Replies(CASE pending[i].cont = "renderDashboard" -> WidgetQuotes
                             [] pending[i].cont = "loadAIInsights" -> InsightBodies
                             [] OTHER -> AdviceBodies) :
            LET data == fetchApi(o)
                began == Begin(Without(pending, i))
                w == CASE pending[i].cont = "renderDashboard" -> resumeRenderDashboard(began, data)
                       [] pending[i].cont = "loadAIInsights" -> resumeLoadAIInsights(began, data)
                       [] OTHER -> resumeLoadAIInsights2(began, data)
            IN  /\ Commit(w)
                /\ step' = Did(pending[i].cont, <<Kind(data)>>, w, step.skipped)
        /\ UNCHANGED <<path, intervals>>
        /\ UNCHANGED animVars

\* a heartbeat of the loading dashboard resumes: the request has failed, or
\* has brought the base snapshot or the one with two products low in stock
FirstHeartbeatResumes ==
    \E i \in DOMAIN pending :
      \E o \in {Failure, Response(200, BaseSnapshot),
                 Response(200, [BaseSnapshot EXCEPT !.stats.low_stock = 2])} :
        /\ pending[i].cont = "updateHeartbeat"
        /\ LET data == fetchApi(o)
               w == resumeHeartbeat(Begin(Without(pending, i)), data)
           IN  /\ Commit(w)
               /\ step' = Did("updateHeartbeat", <<Kind(data)>>, w,
                              Skipped(data, step.skipped))
        /\ UNCHANGED <<path, intervals>>
        /\ UNCHANGED animVars

\* setTimeout(() => scanner.style.display = 'none', 3000)
HideScanner ==
    /\ "security-scanner" \in DOMAIN dom
    /\ dom["security-scanner"].display = "block"
    /\ dom' = [dom EXCEPT !["security-scanner"].display = "none"]
    /\ step' = Did("hideScanner", <<>>, Begin(pending), step.skipped)
    /\ UNCHANGED <<path, plat, intervals, pending>>
    /\ UNCHANGED animVars

\* the dashboard with the regions only the load writes
DashboardDocument ==
    DashboardPage
    @@ "global-pulse-grid" :> <<>>
    @@ "security-status-badge" :> [textContent |-> "SECURE", className |-> "status-badge secure"]
    @@ "security-scanner" :> [display |-> "none"]
    @@ "ai-market-text" :> [textContent |-> "Analyzing...", fadeIn |-> FALSE]
    @@ "ai-inventory-text" :> [innerHTML |-> <<Text("Analyzing...")>>, fadeIn |-> FALSE]

ProductsPage ==
    "productTable" :> NoProductsRow @@ ".edit-btn" :> <<>> @@ "window.currentRole" :> "Admin"

\* the document the server sends for a route
Page(route) ==
    CASE route = "/dashboard" -> DashboardDocument
      [] route = "/market" -> MarketPage
      [] route = "/products" -> ProductsPage
      [] route = "/sales" -> SalesPage
      [] OTHER -> <<>>

\* what is left of the timers and the requests in flight of a document that
\* is unloaded: nothing, they belong to its window
Unload(things) == <<>>

\* The user follows a link or reloads.  The application has no client-side
\* routing (no history API, no hashchange handler): every route is a
\* document of its own, so the old document goes with its timers and the
\* new one waits for DOMContentLoaded.
Navigate ==
    \E route \in Paths :
        /\ intervals # <<>>
        /\ path' = route
        /\ dom' = Page(route)
        /\ plat' = NewPlatform
        /\ intervals' = Unload(intervals)
        /\ pending' = Unload(pending)
        /\ step' = [op |-> "navigate", from |-> path, skipped |-> 0]
        /\ UNCHANGED animVars

LoadInit ==
    /\ AnimStart
    /\ path \in Paths
    /\ plat = NewPlatform
    /\ intervals = <<>>
    /\ pending = <<>>
    /\ dom = Page(path)
    /\ step = NoStep

LoadNext ==
    \/ init \/ IntervalTick \/ Navigate
    \/ LoadDynamicDataResumes \/ DashboardLoadResumes \/ HideScanner
    \/ FirstHeartbeatResumes \/ RemoveValueUpdate
    \/ LoadMarketPageResumes \/ NewsResumes

SpecLoad == LoadInit /\ [][LoadNext]_vars

\* ------------------------------------------------- slow heartbeat cycles

MaxIssued == 3

\* The server takes the snapshot when the request reaches it, and the
\* response may be slow.  A request in flight therefore carries the reply
\* it will get and the number of its issue; the engine knows neither.
Serve(reqs, n, reply) ==
    [i \in DOMAIN reqs |->
        IF "seq" \in DOMAIN reqs[i] THEN reqs[i]
        ELSE [cont |-> reqs[i].cont, endpoints |-> reqs[i].endpoints,
              seq |-> n, reply |-> reply]]

SlowReplies == {Failure} \cup {Response(200, [BaseSnapshot EXCEPT !.stats = s]) : s \in StatsSet}

\* history of the slow cycles: how many heartbeats were issued, the issue
\* whose snapshot is on display, and the latest issue ever rendered
Cycle(issued, shown, newest) == [issued |-> issued, shown |-> shown, newest |-> newest]

SlowStart ==
    /\ intervals = <<>>
    /\ \E o \in SlowReplies :
        LET w == updateHeartbeat(Begin(pending))
        IN  /\ pending' = Serve(w.pending, 1, o)
            /\ dom' = w.dom
            /\ plat' = w.plat
            /\ step' = Cycle(1, 0, 0) @@ Did("startRealtimeEngine", <<>>, w, 0)
    /\ intervals' = EngineTimers
    /\ UNCHANGED path
    /\ UNCHANGED animVars

SlowTick ==
    /\ intervals # <<>>
    /\ Len(pending) < MaxInFlight
    /\ step.issued < MaxIssued
    /\ \E o \in SlowReplies :
        LET w == RunDue(Begin(pending), intervals, 1)
        IN  /\ pending' = Serve(w.pending, step.issued + 1, o)
            /\ dom' = w.dom
            /\ plat' = w.plat
            /\ step' = Cycle(step.issued + 1, step.shown, step.newest)
                       @@ Did("tick", <<>>, w, step.skipped)
    /\ intervals' = Rearm(intervals)
    /\ UNCHANGED path
    /\ UNCHANGED animVars

\* a response arrives, whichever of those in flight
SlowResumes ==
    \E i \in DOMAIN pending :
        /\ pending[i].cont = "updateHeartbeat"
        /\ LET data == fetchApi(pending[i].reply)
               w == resumeHeartbeat(Begin(Without(pending, i)), data)
               rendered == ~skipsCycle(data) /\ ~w.threw
           IN  /\ Commit(w)
               /\ step' = Cycle(step.issued,
                                IF rendered THEN pending[i].seq ELSE step.shown,
                                IF rendered /\ pending[i].seq > step.newest
                                THEN pending[i].seq ELSE step.newest)
                          @@ Did("updateHeartbeat", <<Kind(data)>>, w,
                                 Skipped(data, step.skipped))
        /\ UNCHANGED <<path, intervals>>
        /\ UNCHANGED animVars

\* the value-update class of a stat field is removed, a second after it
\* was added
SlowRemoveValueUpdate ==
    \E id \in dom[".value-update"] :
        /\ dom' = [dom EXCEPT ![".value-update"] = @ \ {id}]
        /\ step' = Cycle(step.issued, step.shown, step.newest)
                   @@ Did("removeValueUpdate", <<>>, Begin(pending), step.skipped)
        /\ UNCHANGED <<path, plat, intervals, pending>>
        /\ UNCHANGED animVars

SlowInit ==
    /\ AnimStart
    /\ path = "/dashboard"
    /\ plat = NewPlatform
    /\ intervals = <<>>
    /\ pending = <<>>
    /\ dom = DashboardPage
    /\ step = Cycle(0, 0, 0) @@ NoStep

SlowNext == SlowStart \/ SlowTick \/ SlowResumes \/ SlowRemoveValueUpdate

SpecSlow == SlowInit /\ [][SlowNext]_vars

\* ------------------------------------- trade submission, watchlist changes

\* fetch(...) called directly, not through fetchApi: no refresh event, and
\* the await carries what the closure keeps for its continuation
RawFetch(w, endpoint, cont, kept) ==
    [w EXCEPT !.pending = Append(@, [cont |-> cont, endpoints |-> <<endpoint>>, kept |-> kept])]

\* window.alert(message): a blocking dialog; the document remembers the last
alert(w, message) == Write(w, "window.alert", message)

\* what the server and the network do to a trade or a watchlist request
Accepted == Response(200, [success |-> TRUE, message |-> "Order executed"])
Rejected == Response(400, [success |-> FALSE, error |-> "Insufficient funds"])
ActionOutcomes == {Accepted, Rejected, Failure, Response(500, Garbage)}

\* what the caller sees of an outcome
Verdict(o) ==
    IF o = Failure \/ o.body = Garbage THEN "failed"
    ELSE IF o.body.success THEN "accepted" ELSE "rejected"

\* form.onsubmit up to its await
onsubmit(w) ==
    LET btn == w.dom["confirmTradeBtn"]
        busy == Write(w, "confirmTradeBtn",
                      [btn EXCEPT !.disabled = TRUE, !.textContent = " Processing..."])
    IN  RawFetch(busy, "/market/trade", "onsubmit", btn.textContent)

\* variant: the button is restored after a successful trade only
resumeOnsubmitNoFinally(w, o, originalText) ==
    IF o = Failure \/ o.body = Garbage THEN alert(w, "Transaction failed")
    ELSE IF ~o.body.success THEN alert(w, "Error: " \o o.body.error)
    ELSE LET told == alert(w, o.body.message)
             closed == Write(told, "tradeModal", [told.dom["tradeModal"] EXCEPT !.display = "none"])
             loading == loadMarketPage(closed)
         IN  Write(loading, "confirmTradeBtn",
                   [loading.dom["confirmTradeBtn"] EXCEPT
                       !.disabled = FALSE, !.textContent = originalText])

\* form.onsubmit from its await on: fetch rejects on a network failure and
\* response.json() on a body that is no JSON, both caught; the finally
\* block restores the button
resumeOnsubmit(w, o, originalText) ==
    LET settled ==
            IF o = Failure \/ o.body = Garbage THEN alert(w, "Transaction failed")
            ELSE IF o.body.success
            THEN LET told == alert(w, o.body.message)
                 IN  loadMarketPage(Write(told, "tradeModal",
                                          [told.dom["tradeModal"] EXCEPT !.display = "none"]))
            ELSE alert(w, "Error: " \o o.body.error)
    IN  Write(settled, "confirmTradeBtn",
              [settled.dom["confirmTradeBtn"] EXCEPT
                  !.disabled = FALSE, !.textContent = originalText])

\* addToWatchlist and removeFromWatchlist (its confirm() answered yes) up to
\* their await
changeWatchlist(w, method) == RawFetch(w, "/market/watchlist", method, "")

\* ... and from it on: the response is not looked at
resumeChangeWatchlist(w, o, method) ==
    IF o = Failure THEN w
    ELSE LET loading == loadMarketPage(w)
         IN  IF method = "addToWatchlist"
             THEN Write(loading, "searchResults", [display |-> "none"])
             ELSE loading

\* the user submits the trade form of the open modal; a disabled submit
\* button blocks the submission
SubmitTrade ==
    /\ dom["tradeModal"].display = "block"
    /\ dom["tradeModal"].handlers
    /\ ~dom["confirmTradeBtn"].disabled
    /\ dom["marketSearchBtn"].click < MaxLoads
    /\ LET w == onsubmit(Begin(pending))
       IN  /\ Commit(w)
           /\ step' = Did("onsubmit", <<>>, w, step.skipped)
    /\ UNCHANGED <<path, intervals>>
    /\ UNCHANGED animVars

TradeSettles ==
    \E i \in DOMAIN pending : \E o \in ActionOutcomes :
        /\ pending[i].cont = "onsubmit"
        /\ LET w == resumeOnsubmit(Begin(Without(pending, i)), o, pending[i].kept)
           IN  /\ Commit(w)
               /\ step' = Did("tradeSettles", <<Verdict(o)>>, w, step.skipped)
        /\ UNCHANGED <<path, intervals>>
        /\ UNCHANGED animVars

\* the user adds the symbol of a search result to the watchlist, or removes
\* a card from it and confirms
ChangeWatchlist ==
    \E method \in {"addToWatchlist", "removeFromWatchlist"} :
        /\ dom["marketSearchBtn"].click < MaxLoads
        /\ \A i \in DOMAIN pending : pending[i].cont \notin {"addToWatchlist", "removeFromWatchlist"}
        /\ LET w == changeWatchlist(Begin(pending), method)
           IN  /\ Commit(w)
               /\ step' = Did(method, <<>>, w, step.skipped)
        /\ UNCHANGED <<path, intervals>>
        /\ UNCHANGED animVars

WatchlistSettles ==
    \E i \in DOMAIN pending : \E o \in ActionOutcomes :
        /\ pending[i].cont \in {"addToWatchlist", "removeFromWatchlist"}
        /\ LET w == resumeChangeWatchlist(Begin(Without(pending, i)), o, pending[i].cont)
           IN  /\ Commit(w)
               /\ step' = Did("watchlistSettles", <<Verdict(o)>>, w, step.skipped)
        /\ UNCHANGED <<path, intervals>>
        /\ UNCHANGED animVars

\* a handler's record on a document and a Platform given outright
On(page, platform) ==
    [pending |-> <<>>, dom |-> page, plat |-> platform,
     same |-> {}, touched |-> {}, raised |-> <<>>, threw |-> FALSE]

\* The trading page once its first load has rendered every region and the
\* general news have arrived: the handlers of the model, run in that order.
Browsing ==
    LET page == TradePage @@ "window.alert" :> "" @@ "searchResults" :> [display |-> "block"]
        started == loadMarketPage(On(page, NewPlatform))
        loaded == resumeLoadMarketPage(On(started.dom, started.plat),
                                       List(<<Index>>), List(<<Stock>>), Account(<<Holding>>))
    IN  resumeNews(On(loaded.dom, loaded.plat), List(<<Story>>))

\* ... and once the user has then made AAPL the active symbol and its quote,
\* its news and its indicators have arrived
Settled ==
    LET chosen == setActiveSymbol(Browsing, "AAPL")
        quoted == resumeUpdateActiveInfo(On(chosen.dom, chosen.plat), Quote("AAPL", 150, -20))
    IN  resumeUpdateIndicators(resumeNews(quoted, List(<<Story>>)),
                               [sma_20 |-> 148, rsi |-> 71, signal |-> "OVERBOUGHT"])

SubmitInit ==
    /\ AnimStart
    /\ path = "/market"
    /\ plat = Settled.plat
    /\ intervals = EngineTimers
    /\ pending = <<>>
    /\ dom = Settled.dom
    /\ step = NoStep

SubmitNext ==
    \/ ClickTrade \/ InputQuantity \/ CloseModal \/ SubmitTrade \/ TradeSettles
    \/ ChangeWatchlist \/ WatchlistSettles \/ TradePageRefreshes \/ NewsResumes

SpecSubmit == SubmitInit /\ [][SubmitNext]_vars

\* ---------------------------------------------------------- market search

\* performSearch up to its await; an empty input returns at once
performSearch(w, symbol) ==
    IF symbol = "" THEN w
    ELSE Fetch(Write(w, "marketSearchBtn",
                     [w.dom["marketSearchBtn"] EXCEPT
                         !.innerHTML = "<i class=\"fas fa-spinner fa-spin\"></i>"]),
               <<"/market/search">>, "performSearch")

\* a click on the search button with symbol in the input: the button's
\* click listeners run one after the other, n of them still to run
RECURSIVE dispatch(_, _, _)
dispatch(w, symbol, n) ==
    IF n = 0 THEN w ELSE dispatch(performSearch(w, symbol), symbol, n - 1)

click(w, symbol) == dispatch(w, symbol, w.dom["marketSearchBtn"].click)

\* ------------------------------------------- changing the active symbol

\* the user clicks a card, a ticker item or a holding, also while the quote
\* of the symbol clicked before is on its way (its news and its indicators
\* have arrived: the model's bound on concurrent requests)
SetActiveSymbolAgain ==
    \E symbol \in TradeSymbols :
        /\ Len(pending) < MaxInFlight
        /\ \A i \in DOMAIN pending : pending[i].cont = "updateActiveInfo"
        /\ LET w == setActiveSymbol(Begin(pending), symbol)
           IN  /\ Commit(w)
               /\ step' = Did("setActiveSymbol", <<>>, w, step.skipped)
        /\ UNCHANGED <<path, intervals>>
        /\ UNCHANGED animVars

ActiveInit ==
    /\ AnimStart
    /\ path = "/market"
    /\ plat = Browsing.plat
    /\ intervals = EngineTimers
    /\ pending = <<>>
    /\ dom = Browsing.dom
    /\ step = NoStep

ActiveNext ==
    \/ SetActiveSymbolAgain \/ ActiveInfoResumes \/ IndicatorsResume \/ NewsResumes
    \/ ClickTrade \/ CloseModal

SpecActive == ActiveInit /\ [][ActiveNext]_vars

\* ------------------------------------------------------------ properties

IsFired(kind) == last.kind = "fired" /\ last.timer = kind

\* C5: a low_stock event sets the flow state to alert at once; while no other
\* call of setFlowState (from a market_update, another low_stock or an older
\* revert timer) comes in between, the state stays alert until the event's
\* own timer runs, which happens exactly 5000 ms after the event and leaves
\* the state idle.
AlertHoldsFiveSeconds ==
    /\ last.kind = "low_stock" => config.state = "alert"
    /\ \A i \in DOMAIN timers :
          (timers[i].kind = "idle" /\ hist[i].tracked /\ hist[i].clean)
              => (config.state = "alert" /\ hist[i].age <= 5000)
    /\ (IsFired("idle") /\ last.was.tracked /\ last.was.clean)
          => (config.state = "idle" /\ last.was.age = 5000)

AlertRevertSeen ==
    /\ IsFired("idle") /\ last.was.tracked /\ last.was.clean
    /\ config.state = "idle"

\* C6: right after a market_update the flow state is processing when the
\* payload's volatility exceeds 2 and idle otherwise (2 itself gives idle,
\* a payload without the field too), from every earlier state; each payload
\* built by the platform carries the absolute value of the quote's
\* change_percent, so a change of -3% gives processing.
MarketUpdateThreshold ==
    last.kind = "market_update" =>
        /\ config.state \in {"processing", "idle"}
        /\ config.state = "processing"
              <=> ("volatility" \in DOMAIN last.data /\ last.data.volatility >= 21)
        /\ last.quote # NoData =>
              /\ last.quote.change_percent >= 0
                    => last.data.volatility = last.quote.change_percent
              /\ last.quote.change_percent < 0
                    => last.data.volatility = 0 - last.quote.change_percent
              /\ config.state = "processing"
                    <=> (last.quote.change_percent > 20 \/ last.quote.change_percent < -20)

NegativeSwingSeen ==
    /\ last.kind = "market_update"
    /\ last.quote # NoData
    /\ last.quote.change_percent = -30
    /\ config.state = "processing"

\* C7: a pulse trigger multiplies the base speed by 3, and its timer, 500 ms
\* later, sets the base speed to the value found just before that trigger,
\* whatever other pulses or flow-state changes happened in the window.
PulseRestoresCapturedSpeed ==
    /\ \A n \in {SalePulse, MarketPulse, InsightPulse} :
          LET a == triggerPulse(Anim, n)
          IN  /\ a.config.baseSpeed.b = config.baseSpeed.b
              /\ a.config.baseSpeed.k = config.baseSpeed.k + 1
    /\ last.kind = "sale" =>
          /\ config.baseSpeed.b = hist[Len(hist)].pre.b
          /\ config.baseSpeed.k = hist[Len(hist)].pre.k + 1
    /\ IsFired("speed") =>
          /\ config.baseSpeed = last.was.pre
          /\ last.was.age = 500

\* a restore that lands in a flow state other than the one the pulse found
RestoreAcrossStateChange ==
    /\ IsFired("speed")
    /\ config.state = "processing"
    /\ config.baseSpeed = Speed(4, 0)

\* C8: a frame multiplies a positive pulse intensity by 0.95 (one more factor
\* of 0.95, the same m) and leaves a zero intensity alone; a pulse trigger
\* sets the intensity to the new value alone, whatever was left of the old;
\* no other step changes it.  So triggerPulse(20) and ten frames give
\* 20 * 0.95^10.
PulseDecaysPerFrame ==
    [][LET p == config.pulseIntensity
           q == config'.pulseIntensity
       IN  CASE last'.kind = "frame" ->
                  IF p.m > 0 THEN q.m = p.m /\ q.e = p.e + 1 ELSE q = p
             [] last'.kind = "sale" -> q.m = 20 /\ q.e = 0
             [] last'.kind = "market_update" -> q.m = 10 /\ q.e = 0
             [] last'.kind = "ai_insight" -> q.m = 25 /\ q.e = 0
             [] OTHER -> q = p]_vars

TenFramesAfterSale ==
    /\ last.kind = "frame"
    /\ config.pulseIntensity.m = 20
    /\ config.pulseIntensity.e = 10

\* C9: sale sets the pulse intensity to 20 and keeps the flow state,
\* market_update sets it to 10, ai_insight to 25; refresh changes none of
\* pulse intensity, flow state, base speed and hue.
EventPulseMapping ==
    [][CASE last'.kind = "sale" ->
              /\ config'.pulseIntensity = [m |-> 20, e |-> 0]
              /\ config'.state = config.state
         [] last'.kind = "market_update" ->
              config'.pulseIntensity = [m |-> 10, e |-> 0]
         [] last'.kind = "ai_insight" ->
              config'.pulseIntensity = [m |-> 25, e |-> 0]
         [] last'.kind = "refresh" ->
              /\ config' = config
              /\ hue' = hue
              /\ timers' = timers
         [] OTHER -> TRUE]_vars

RefreshDuringAlert ==
    /\ last.kind = "refresh"
    /\ config.state = "alert"
    /\ hue = 280
    /\ config.pulseIntensity.m = 25
    /\ config.baseSpeed.k > 0

\* C10: the hue is 280 right after an ai_insight, and once no hue timer is
\* pending (2000 ms after the last ai_insight) it is 220 again.
HueShiftIsTemporary ==
    /\ last.kind = "ai_insight" => hue = 280
    /\ (\A i \in DOMAIN timers : timers[i].kind # "hue") => hue = 220

\* C1: fetchApi never raises to its caller: a transport error, a status
\* outside 200..299 or a body that is no JSON makes it resolve to null, and a
\* 2xx response with a JSON body makes it resolve to that body, whatever the
\* endpoint.
FetchApiNeverRaises ==
    step.op = "settled" =>
        LET o == step.outcome
            bad == \/ o.net = "error"
                   \/ o.status < 200
                   \/ o.status > 299
                   \/ o.body = [garbage |-> TRUE]
        IN  /\ step.result # [thrown |-> TRUE]
            /\ bad => step.result = [null |-> TRUE]
            /\ ~bad => step.result = o.body

FetchFailureSeen ==
    /\ step.op = "settled"
    /\ step.outcome.net = "ok"
    /\ step.outcome.status = 500
    /\ step.result = Null

IsHeartbeatFetch(e) == e = Await(<<"/realtime-updates">>, "updateHeartbeat")

\* C2: a heartbeat cycle whose fetch came back null, or with a body that has
\* an error field, writes no element (stats, market widget, recent sales,
\* timestamp, or anything that would show an error), raises no event and no
\* exception; and every 5-second tick on the dashboard issues a fresh fetch
\* of /realtime-updates, however many cycles in a row were skipped before.
HeartbeatFailureIsSilent ==
    /\ (step.op = "updateHeartbeat" /\ step.got[1] \in {"null", "error"})
          => (step.touched = {} /\ step.raised = <<>> /\ ~step.threw)
    /\ (step.op = "tick" /\ path = "/dashboard")
          => (pending # <<>> /\ IsHeartbeatFetch(pending[Len(pending)])
              /\ step.raised = <<Refresh("/realtime-updates")>>)

RetryAfterSkippedCycles ==
    /\ step.op = "tick"
    /\ step.skipped = MaxSkipped
    /\ dom["last-updated"] # DashboardPage["last-updated"]
    /\ pending # <<>> /\ IsHeartbeatFetch(pending[Len(pending)])

\* C3: when every fetch of a market refresh fails, each container that showed
\* rendered data keeps what it showed (no placeholder takes its place), and
\* when the news fetch fails the news container keeps its stories.
FailedRefreshKeepsView ==
    [][/\ (step'.op = "loadMarketPage" /\ step'.got = <<"null", "null", "null">>
              /\ dom["userWatchlistGrid"] \notin {MarketPage["userWatchlistGrid"], NoWatchlist})
          => \A id \in {"indicesTicker", "userWatchlistGrid", "portfolioSummary",
                        "marketStatsContainer"} : dom'[id] = dom[id]
       /\ (step'.op = "loadNews" /\ step'.got = <<"null">>
              /\ dom["newsFeedContainer"] \notin {MarketPage["newsFeedContainer"], NoNews})
          => dom'["newsFeedContainer"] = dom["newsFeedContainer"]]_vars

\* C4: a heartbeat render writes no element of its regions (the three stat
\* fields, the market widget, the recent-sales table) for which the string
\* it renders is the string rendered into the element before.
IdenticalRenderWritesNothing ==
    step.op = "updateHeartbeat" => step.same \cap step.touched = {}

\* C11: whenever a heartbeat delivers a snapshot whose low-stock count is
\* greater than zero, a low_stock event is raised to the event sink.
HeartbeatLowStockRaisesAlert ==
    (/\ step.op = "updateHeartbeat"
     /\ step.got = <<"data">>
     /\ ~step.threw
     /\ dom["low-stock"] # "0")
        => \E i \in DOMAIN step.raised : step.raised[i].kind = "low_stock"

\* the positions of the events of one kind among those a handler raised
Raised(w, kind) == {i \in DOMAIN w.raised : w.raised[i].kind = kind}

\* C12: a heartbeat that changes the displayed revenue figure raises exactly
\* one sale event, whose amount is the snapshot's today_revenue; a heartbeat
\* that leaves the figure as displayed (the formatted revenue is the one
\* shown, whatever happens to total-products and low-stock) raises none.
RevenueChangeRaisesOneSale ==
    \A b \in Snapshots \cup PartialSnapshots :
        LET w == resumeHeartbeat(Begin(pending), b)
        IN  IF w.dom["today-revenue"] # dom["today-revenue"]
            THEN /\ Cardinality(Raised(w, "sale")) = 1
                 /\ \A i \in Raised(w, "sale") :
                        w.raised[i].data = [amount |-> b.stats.today_revenue]
            ELSE Raised(w, "sale") = {}

\* a heartbeat has changed the revenue shown and raised its sale
RevenueSaleSeen ==
    /\ step.op = "updateHeartbeat"
    /\ dom["today-revenue"] = "$20.00"
    /\ \E i \in DOMAIN step.raised : step.raised[i] = [kind |-> "sale", data |-> [amount |-> 20000]]

\* C13: when renderSales re-renders the dropdown, a product that was
\* selected before and whose id is among the new options is the selected
\* product afterwards.
SelectionSurvivesRerender ==
    [][(/\ step'.op = "renderSales"
        /\ SelectValue(dom["productSelect"]) # ""
        /\ \E i \in DOMAIN dom'["productSelect"].options :
               dom'["productSelect"].options[i].value = SelectValue(dom["productSelect"]))
       => SelectValue(dom'["productSelect"]) = SelectValue(dom["productSelect"])]_vars

\* a re-render has moved the selected product to another position of the
\* list and it is still the selected one
MovedOptionStillSelected ==
    /\ step.op = "renderSales"
    /\ SelectValue(dom["productSelect"]) = "665f1a"
    /\ dom["productSelect"].selectedIndex = 3

\* the prices the quotes of the trading page carry
QuotedPrices == {150, 300}

\* C14: while the trade modal is open, the total it shows is the quantity in
\* its quantity field times the price the modal was opened with (the price
\* its header shows), whatever refresh or newer quote has arrived since;
\* right after opening the quantity is 1 and the total is that price.
TradeTotalUsesOpeningPrice ==
    dom["tradeModal"].display = "block" =>
        \E p \in QuotedPrices :
            /\ dom["tradeHeader"].tradePrice = "$" \o toLocaleString(p)
            /\ \/ dom["tradeTotal"] = "$" \o toLocaleMoney(parseFloatOr0(dom["tradeQuantity"]) * p)
               \/ /\ dom["tradeQuantity"] = "1"
                  /\ dom["tradeTotal"] = "$" \o toLocaleString(p)

\* the modal was opened at 150, a quote at 300 has armed the buttons since,
\* and the quantity was then set to 3: the total is 450.00
TotalAfterNewerQuote ==
    /\ step.op = "oninput"
    /\ dom["tradeModal"].display = "block"
    /\ dom["tradeHeader"].tradePrice = "$150"
    /\ dom["buyBtn"].onclick = <<Quote("MSFT", 300, 5)>>
    /\ dom["tradeQuantity"] = "3"
    /\ dom["tradeTotal"] = "$450.00"

\* the endpoints of the requests in flight
InFlight == UNION {{pending[i].endpoints[j] : j \in DOMAIN pending[i].endpoints} : i \in DOMAIN pending}

\* C15: when init() returns, no interval has elapsed any of its time and
\* the page's first pass is already in flight: on /dashboard the /summary
\* load and the first /realtime-updates heartbeat, on /market the three
\* requests of the market load.
FirstPassBeforeFirstTick ==
    step.op = "init" =>
        /\ \A i \in DOMAIN intervals : intervals[i].left = intervals[i].every
        /\ path = "/dashboard" => {"/summary", "/realtime-updates"} \subseteq InFlight
        /\ path = "/market" =>
               {"/market", "/market/watchlist", "/market/portfolio"} \subseteq InFlight
        /\ path = "/products" => "/products" \in InFlight
        /\ path = "/sales" => "/sales" \in InFlight

\* init() has just run on the dashboard
DashboardFirstPassStarted ==
    /\ step.op = "init"
    /\ path = "/dashboard"
    /\ Len(pending) = 2
    /\ intervals[1] = Every("heartbeat", HeartbeatMs)

\* the endpoints the polling of a route may ask
PollingOf(route) ==
    CASE route = "/dashboard" -> {"/realtime-updates"}
      [] route = "/market" -> {"/market", "/market/watchlist", "/market/portfolio"}
      [] OTHER -> {}

OnlyTimersOfTheRoute ==
    \A i \in DOMAIN intervals :
        /\ intervals[i].purpose = "heartbeat" => path = "/dashboard"
        /\ intervals[i].purpose = "market" => path = "/market"

\* C18: whichever of the three results of loadMarketPage are null, the
\* handler raises nothing and runs every renderer whose data has come: the
\* ticker for the indices, the grid for the watchlist, the summary for the
\* portfolio, and in every case the market stats and the request for news.
NullSubsetTolerated ==
    (/\ step.op = "loadMarketPage"
     /\ \A k \in DOMAIN step.got : step.got[k] \in {"null", "data"})
        => /\ ~step.threw
           /\ step.got[1] = "data" => "indicesTicker" \in step.touched
           /\ step.got[2] = "data" => "userWatchlistGrid" \in step.touched
           /\ step.got[3] = "data" => "portfolioSummary" \in step.touched
           /\ "marketStatsContainer" \in step.touched
           /\ \E i \in DOMAIN step.raised : step.raised[i] = Refresh("/market/news")

\* only the watchlist has come
OnlyWatchlistArrived ==
    /\ step.op = "loadMarketPage"
    /\ step.got = <<"null", "data", "null">>
    /\ "userWatchlistGrid" \in step.touched
    /\ ~step.threw

\* C19: a handler resumed with a body that carries an error field treats it
\* as no update and raises no exception, on the page loads as on the market
\* page.
ErrorBodyRaisesNothing ==
    (/\ "got" \in DOMAIN step
     /\ \E k \in DOMAIN step.got : step.got[k] = "error")
        => ~step.threw

\* the document after rendering data twice is the document after rendering
\* it once
SameTwice(render(_, _), data) ==
    LET once == render(Begin(pending), data)
    IN  render(once, data).dom = once.dom

\* C20: every renderer that a polling cycle re-runs is idempotent: the
\* stats, the market widget and the recent sales of the dashboard, the
\* indices ticker, the watchlist grid, the portfolio and the market stats
\* of the market page.
RenderTwiceIsRenderOnce ==
    /\ path = "/dashboard" =>
           /\ \A s \in StatsSet : SameTwice(renderStats, s)
           /\ \A m \in WidgetQuotes : SameTwice(renderMarketWidget, m)
           /\ \A r \in SalesSet : SameTwice(renderRecentSalesMini, r)
    /\ path = "/market" =>
           /\ \A g \in IndicesBodies : SameTwice(renderIndicesTicker, g)
           /\ \A l \in WatchlistBodies \ {[error |-> "Unauthorized"]} :
                  SameTwice(renderWatchlistGrid, l)
           /\ \A p \in PortfolioBodies : SameTwice(renderPortfolio, p)
           /\ \A g \in IndicesBodies \ {[error |-> "Failed to fetch market data"]} :
                  \A l \in WatchlistBodies \ {[error |-> "Unauthorized"]} :
                      LET once == renderMarketStats(Begin(pending), g, l)
                      IN  renderMarketStats(once, g, l).dom = once.dom

\* C21: a heartbeat snapshot that lacks one of its sections raises no
\* exception and still has the timestamp written.
PartialSnapshotTolerated ==
    \A b \in PartialSnapshots :
        LET w == resumeHeartbeat(Begin(pending), b)
        IN  ~w.threw /\ "last-updated" \in w.touched

\* C22: the snapshot on display is always that of the latest-issued
\* heartbeat that has been rendered: a response that arrives after the
\* response to a later request does not write over it, and raises no sale
\* for its older revenue.
LaterIssuedHeartbeatWins ==
    step.op = "updateHeartbeat" => step.shown = step.newest

\* C23: whenever a user-initiated action (a trade submission, adding a
\* symbol to the watchlist, removing one) is rejected by the server, the
\* handler that receives the rejection shows a blocking alert that carries
\* the server's message.
RejectionIsAlerted ==
    (step.op \in {"tradeSettles", "watchlistSettles"} /\ step.got = <<"rejected">>)
        => /\ "window.alert" \in step.touched
           /\ dom["window.alert"] \in {Rejected.body.error, "Error: " \o Rejected.body.error}

TradeInFlight == \E i \in DOMAIN pending : pending[i].cont = "onsubmit"

\* C29: while a trade request is in flight the confirm button is disabled;
\* the step that settles the request enables it again with the label it had
\* when the form was submitted, whether the trade was accepted, rejected or
\* the request failed; that step closes the modal and starts a reload of the
\* market page exactly when the trade was accepted.
ConfirmButtonFollowsRequest ==
    /\ [](TradeInFlight => dom["confirmTradeBtn"].disabled)
    /\ [][step'.op = "tradeSettles" =>
            \E i \in DOMAIN pending :
                /\ pending[i].cont = "onsubmit"
                /\ dom'["confirmTradeBtn"] =
                       [dom["confirmTradeBtn"] EXCEPT !.disabled = FALSE,
                                                      !.textContent = pending[i].kept]
                /\ pending[i].kept \in {"Confirm BUY", "Confirm SELL"}
                /\ IF step'.got = <<"accepted">>
                   THEN /\ "tradeModal" \in step'.touched
                        /\ dom'["tradeModal"].display = "none"
                        /\ pending' = Append(Without(pending, i),
                                             Await(<<"/market", "/market/watchlist",
                                                     "/market/portfolio">>, "loadMarketPage"))
                   ELSE /\ "tradeModal" \notin step'.touched
                        /\ dom'["tradeModal"] = dom["tradeModal"]
                        /\ pending' = Without(pending, i)]_vars

RejectedTradeRestoresButton ==
    /\ step.op = "tradeSettles"
    /\ step.got = <<"rejected">>
    /\ dom["confirmTradeBtn"].disabled = FALSE
    /\ dom["confirmTradeBtn"].textContent = "Confirm BUY"
    /\ dom["tradeModal"].display = "block"

\* the transactions a table body shows: its rows, the placeholder row of an
\* empty table aside
TxnShown(markup) == IF markup = NoTransactionsRow THEN 0 ELSE CountRows(markup)

\* C24: renderSales raises one sale event, with the first transaction's
\* total as amount, when the snapshot holds more transactions than the table
\* showed before the render, and none otherwise; so it raises one when a
\* table that showed no transaction is given a snapshot with one.
NewTransactionRaisesSale ==
    \A data \in SalesBodies :
        LET w == renderSales(Begin(pending), data)
        IN  ~w.threw =>
                IF Len(data.transactions.list) > TxnShown(dom["salesTable"])
                THEN w.raised = <<[kind |-> "sale",
                                   data |-> [amount |-> data.transactions.list[1].total_price]]>>
                ELSE w.raised = <<>>

\* the speed setFlowState gives a flow state
NominalSpeed(state) ==
    CASE state = "processing" -> Speed(8, 0)
      [] state = "alert" -> Speed(12, 0)
      [] OTHER -> Speed(4, 0)

\* C25: whenever no pulse timer and no revert timer is pending, the base
\* speed is the nominal speed of the current flow state (idle 0.4,
\* processing 0.8, alert 1.2), whatever sale, market_update, low_stock and
\* ai_insight events came before and however close together.
SpeedSettlesAtNominal ==
    (\A i \in DOMAIN timers : timers[i].kind = "hue")
        => config.baseSpeed = NominalSpeed(config.state)

\* C26: when the 5-second revert timer of a low_stock event fires after a
\* later event has set the flow state, it leaves the state as it is: with a
\* later low_stock event whose own 5 s are still running the state stays
\* alert, and after a later market_update with volatility above 2 it stays
\* processing.
StaleRevertLeavesState ==
    [][(last'.kind = "fired" /\ last'.timer = "idle"
        /\ \/ /\ ~last'.was.tracked
              /\ \E i \in DOMAIN timers' : timers'[i].kind = "idle" /\ timers'[i].left > 0
           \/ ~last'.was.clean /\ config.state = "processing")
       => config'.state = config.state]_vars

\* the search requests in flight
Searches(reqs) == {i \in DOMAIN reqs : reqs[i].cont = "performSearch"}

\* C27: after any number of runs of loadMarketPage, one click on the market
\* search button with a symbol in the input issues exactly one search
\* request, and the trade modal's handlers are installed, once.
OneClickOneSearch ==
    dom["marketSearchBtn"].click > 0 =>
        /\ Cardinality(Searches(click(Begin(pending), "AAPL").pending)) = 1
        /\ dom["tradeModal"].handlers
        /\ dom["marketSearchBtn"].click > 1 => "tradeModal" \notin step.touched

\* C28: when a quote arrives and enables the Buy and Sell buttons, the stock
\* they open the trade modal for is the active symbol, also when the user
\* made a second symbol active while the quote of the first was in flight,
\* in whichever order the two quotes arrive.
ButtonsTradeActiveSymbol ==
    (step.op = "updateActiveInfo" /\ step.got = <<"data">>)
        => \A b \in {"buyBtn", "sellBtn"} :
               ~dom[b].disabled => <<dom[b].onclick[1].symbol>> = plat.activeSymbol

\* the glow setFlowState gives a flow state, in tenths
GlowOf(state) ==
    CASE state = "processing" -> 5
      [] state = "alert" -> 10
      [] OTHER -> 0

====
